---- MODULE Spec2Model ----
(***************************************************************************)
(* Cosmiframe: the message-based RPC bridge between an iframe app and the  *)
(* parent window that acts as its wallet.                                  *)
(*                                                                         *)
(*   - the dispatcher: the listener installed by Cosmiframe.listen         *)
(*     (src/src/client.ts:528-700), specification Spec;                    *)
(*   - the correlator: callParentMethod (src/src/utils.ts:13-53, called    *)
(*     from src/src/client.ts:377-388), specification SpecCall.            *)
(*                                                                         *)
(* JavaScript strings are modelled as sequences of tokens, so that string  *)
(* templates and String.replace are computed and not assumed.              *)
(***************************************************************************)
EXTENDS Integers, Sequences, FiniteSets, TLC

(***************************************************************************)
(* Bounds of the model.                                                    *)
(***************************************************************************)
\* Requests the dispatcher accepts in one behaviour (they may be in flight
\* together: the listener is async).
MaxTasks == 2
\* How many times the legacy prefix is stacked on a method name.
MaxPrefix == 2
\* Calls of callParentMethod in one behaviour.
MaxCalls == 2

(***************************************************************************)
(* JavaScript values.                                                      *)
(***************************************************************************)
\* `undefined` in a slot of type string | undefined.
UNDEF == <<"#undefined">>
\* A property that is not there (`response?: never`, `error?: never`).
ABSENT == "#absent"
\* A method field that is present but is not a string (a number).
NonString == <<"#number">>

\* JavaScript truthiness of a string | undefined.
Truthy(s) == s # UNDEF /\ s # <<>>

\* Values a handler can resolve to; the first three are falsy.
Values == {"undefined", "null", "0", "v1"}

\* What a callable of the parent can throw (or reject with): an Error with a
\* message, a string, or an object that is not an Error.
Thrown == { [kind |-> "Error", message |-> <<"boom">>],
            [kind |-> "string", message |-> <<"oops">>],
            [kind |-> "object", message |-> UNDEF] }

\* An awaited callable settles without throwing.
NoThrow == [kind |-> "none", message |-> UNDEF]

(***************************************************************************)
(* Origins.  An entry of an allow-list is an exact string or a RegExp.     *)
(***************************************************************************)
OriginA == "https://daodao.zone"
OriginB == "https://dao.daodao.zone"
OriginEvil == "https://evil.example"
Origins == {OriginA, OriginB, OriginEvil}

Str(s) == [kind |-> "string", v |-> s]
Re(s) == [kind |-> "regexp", v |-> s]
\* RegExp.prototype.test for the one pattern of the model, /daodao\.zone$/.
RegExpTest(re, origin) == re.v = "daodao\\.zone$" /\ origin \in {OriginA, OriginB}

\* Variant of IsOriginAllowed: a RegExp entry is compared like a string.
IsOriginAllowedExact(origins, origin) ==
  \E i \in 1..Len(origins) :
    \/ origins[i] = Str("*")
    \/ origins[i].v = origin

\* utils.isOriginAllowed
IsOriginAllowed(origins, origin) ==
  \E i \in 1..Len(origins) :
    \/ origins[i] = Str("*")
    \/ origins[i].kind = "string" /\ origins[i].v = origin
    \/ origins[i].kind = "regexp" /\ RegExpTest(origins[i], origin)

(***************************************************************************)
(* Method names: strings as sequences of tokens.                           *)
(***************************************************************************)
LegacyPrefix == "signer:"

RECURSIVE Prefixed(_, _)
Prefixed(name, n) == IF n = 0 THEN <<name>> ELSE <<LegacyPrefix>> \o Prefixed(name, n - 1)

\* The one method the target object and the signers may carry.
MethodName == <<"getAccounts">>
\* enum InternalMethod
IsCosmiframe == <<"isCosmiframe">>
GetMetadata == <<"getMetadata">>
InternalMethod == {IsCosmiframe, GetMetadata}
\* A name that every object inherits from Object.prototype, and its value
\* when called on a plain object.
ObjectToString == <<"toString">>
ObjectPrototype == {ObjectToString}

\* Variant of ReplaceSignerPrefix: the prefix is left in place.
ReplaceNothing(method) == method

\* method.replace(/^signer:/, '')
ReplaceSignerPrefix(method) ==
  IF Len(method) > 0 /\ Head(method) = LegacyPrefix THEN Tail(method) ELSE method

(***************************************************************************)
(* The dispatcher's state.                                                 *)
(***************************************************************************)
VARIABLES
  opts,          \* the ListenOptions given to Cosmiframe.listen
  iframeWindow,  \* iframe.contentWindow: "iframe", or "null" once detached
  tasks,         \* the listener's invocations on accepted requests, in order of receipt
  sent,          \* the messages posted to the iframe's window, in order
  received       \* the message event the last step dispatched at the parent's window

dvars == <<opts, iframeWindow, tasks, sent, received>>

(***************************************************************************)
(* The state of the app in the iframe.                                     *)
(***************************************************************************)
VARIABLES
  client,          \* the list new Cosmiframe was given, and whether it threw
  allowedOrigins,  \* Cosmiframe's #allowedOrigins
  calls,           \* the calls of callParentMethod, in the order they were made
  outbox,          \* the messages posted to window.parent, in order
  lastEvent,       \* the message event the last step dispatched at the iframe's window
  inIframe,        \* isInIframe(): the app's window has a parent other than itself
  returned         \* what the app asked of the client and of its proxies, in order

cvars == <<client, allowedOrigins, calls, outbox, lastEvent, inIframe, returned>>

\* ListenOptions: how the overrides are given, what the target object and the
\* signers carry under MethodName, and the origins.
ListenOptions ==
  [ overrides : {"none", "static", "factory"},
    method : {"absent", "nonFunction", "function"},
    origins : { <<>>, <<Str(OriginB)>>, <<Str(OriginA), Re("daodao\\.zone$")>> } ]

\* Variant of ListenOrigins: an empty list is kept as it is.
ListenOriginsAsGiven == opts.origins

\* const origins = _origins?.length ? _origins : ['*']
ListenOrigins == IF Len(opts.origins) > 0 THEN opts.origins ELSE <<Str("*")>>

\* The keys of the configured overrides (signer and non-signer alike).
OverrideKeys == IF opts.overrides = "none" THEN {} ELSE {MethodName}

(***************************************************************************)
(* Messages.                                                               *)
(***************************************************************************)
NoMsg == [type |-> "none", response |-> ABSENT, error |-> UNDEF]
SuccessMsg(v) == [type |-> "success", response |-> v, error |-> UNDEF]
ErrorMsg(e) == [type |-> "error", response |-> ABSENT, error |-> e]

\* `${err}` of a value that is not an Error.
TemplateString(err) == IF err.kind = "string" THEN err.message ELSE <<"[object Object]">>

\* Variant of Caught: the message of whatever was thrown.
CaughtMessage(err) == ErrorMsg(err.message)

\* catch (err): err instanceof Error ? err.message : `${err}`
Caught(err) == ErrorMsg(IF err.kind = "Error" THEN err.message ELSE TemplateString(err))

Error(message) == [kind |-> "Error", message |-> message]

\* Variant of ProcessOverrideHandler: the handler's error string is dropped.
ProcessOverrideHandlerNoError(handler) ==
  IF handler.type = "undefined" \/ handler.type = "error"
  THEN ErrorMsg(<<"Handled by outer wallet.">>)
  ELSE IF handler.type = "success" THEN SuccessMsg(handler.value) ELSE NoMsg

\* Variant of ProcessOverrideHandler: a value counts only when it is truthy.
ProcessOverrideHandlerTruthy(handler) ==
  IF handler.type = "undefined" \/ handler.type = "error"
  THEN ErrorMsg(IF handler.type = "error" /\ Truthy(handler.error)
                THEN handler.error
                ELSE <<"Handled by outer wallet.">>)
  ELSE IF handler.type = "success" /\ handler.value \notin {"undefined", "null", "0"}
       THEN SuccessMsg(handler.value)
       ELSE NoMsg

\* utils.processOverrideHandler
ProcessOverrideHandler(handler) ==
  IF handler.type = "undefined" \/ handler.type = "error"
  THEN ErrorMsg(IF handler.type = "error" /\ Truthy(handler.error)
                THEN handler.error
                ELSE <<"Handled by outer wallet.">>)
  ELSE IF handler.type = "success"
       THEN SuccessMsg(handler.value)
       ELSE NoMsg

\* No override handler has returned.
NoHandler == [type |-> "none", error |-> UNDEF, value |-> "undefined"]

\* What an override handler can return: nothing, Fail, Value, Defer.
OverrideHandlers ==
  { [type |-> "undefined", error |-> UNDEF, value |-> "undefined"],
    [type |-> "call", error |-> UNDEF, value |-> "undefined"] }
  \cup { [type |-> "error", error |-> e, value |-> "undefined"] : e \in {UNDEF, <<>>, <<"e1">>} }
  \cup { [type |-> "success", error |-> UNDEF, value |-> v] : v \in Values }

(***************************************************************************)
(* Message events the parent window receives.                              *)
(***************************************************************************)
ChainIds == {UNDEF, <<>>, <<"cosmoshub-4">>}
ParamsSet == {<<>>, <<"p1">>}
RequestIds == 1..MaxTasks

\* data: which of the required fields it has ("ok": all; "string": data is
\* not an object), and the fields of RequestMethodCallMessage.
Data(shape, id, method, params, chainId, signerType, signType, internal) ==
  [ shape |-> shape, id |-> id, method |-> method, params |-> params,
    chainId |-> chainId, signerType |-> signerType, signType |-> signType,
    internal |-> internal ]

Shapes == {"ok", "noId", "noMethod", "noParams", "string"}

\* signerType and signType: neither, one of them, both and different.
KindPairs == { <<"undefined", "undefined">>, <<"amino", "undefined">>,
               <<"undefined", "direct">>, <<"amino", "direct">> }

\* Requests for the target object or a signer.
MethodRequests ==
  { Data("ok", 1, Prefixed("getAccounts", n), p, c, k[1], k[2], FALSE) :
      n \in 0..MaxPrefix, p \in ParamsSet, c \in ChainIds, k \in KindPairs }
\* Requests with the internal flag.
InternalRequests ==
  { Data("ok", 1, m, <<>>, c, k[1], k[2], TRUE) :
      m \in {IsCosmiframe, GetMetadata, Prefixed("isCosmiframe", 1), MethodName, ObjectToString},
      c \in {UNDEF, <<"cosmoshub-4">>},
      k \in { <<"undefined", "undefined">>, <<"amino", "undefined">> } }
\* The requests of CoreEvents: a call of the target, a probe, and a method that is no string.
CoreRequests ==
  { Data("ok", id, m[1], <<>>, UNDEF, "undefined", "undefined", m[2]) :
      id \in RequestIds, m \in { <<MethodName, FALSE>>, <<IsCosmiframe, TRUE>>,
                                 <<IsCosmiframe, FALSE>>, <<NonString, FALSE>> } }
\* One request of each malformed shape.
MalformedRequests ==
  { Data(sh, 1, MethodName, <<>>, UNDEF, "undefined", "undefined", FALSE) :
      sh \in Shapes \ {"ok"} }

Event(source, origin, data) == [source |-> source, origin |-> origin, data |-> data]

\* Events from any window and any origin, with the core and malformed requests.
CoreEvents ==
  { Event(w, o, d) : w \in {"iframe", "other"}, o \in Origins,
                     d \in CoreRequests \cup MalformedRequests }
\* The core events, and every request from the iframe at OriginA.
MessageEvents ==
  CoreEvents \cup { Event("iframe", OriginA, d) : d \in MethodRequests \cup InternalRequests }

\* The events of the concurrent runs: from the iframe at OriginA, a call of
\* the target, a call of a signer and a probe, under each id; and one event
\* from another window.
ConcurrentEvents ==
  { Event("iframe", OriginA, Data("ok", id, m[1], <<>>, m[2], m[3], "undefined", m[4])) :
      id \in RequestIds,
      m \in { <<MethodName, UNDEF, "undefined", FALSE>>,
              <<MethodName, <<"cosmoshub-4">>, "amino", FALSE>>,
              <<IsCosmiframe, UNDEF, "undefined", TRUE>> } }
  \cup { Event("other", OriginEvil,
                Data("ok", 1, MethodName, <<>>, UNDEF, "undefined", "undefined", FALSE)),
         Event("iframe", OriginA,
               Data("noId", 1, MethodName, <<>>, UNDEF, "undefined", "undefined", FALSE)) }

\* No event: the last step was not the dispatch of one.
NoEvent == [source |-> "none", origin |-> "none",
            data |-> [id |-> 0, type |-> "none", response |-> ABSENT, error |-> UNDEF]]

\* !data || typeof data !== 'object' || !('id' in data) || !('method' in data)
\* || !('params' in data)
HasRequiredFields(data) == data.shape = "ok"

(***************************************************************************)
(* The listener of Cosmiframe.listen, from its try block on.  A task is    *)
(* one invocation of the listener; pc is the await it is suspended at,     *)
(* "post" when it has left the try block, "done" after the post, "threw"   *)
(* when an exception escaped.  req (the event as it came), inv (the        *)
(* callables of the parent it has called), handler (what the override     *)
(* returned), signer (the provider has given a signer), resolved (what    *)
(* the method resolved to) and thrown (what an awaited callable threw)     *)
(* record what happened; the code reads none of them.                      *)
(***************************************************************************)
IsSigner(t) == t.signerType # "undefined"

Invoke(t, fn, name, args, pc) ==
  [t EXCEPT !.inv = Append(@, [fn |-> fn, name |-> name, args |-> args]), !.pc = pc]

Finish(t, msg) == [t EXCEPT !.pc = "post", !.msg = msg]

\* Variant of NoSignerMethod: the method is named as the request gave it.
NoSignerMethodAsGiven(t) ==
  <<"No ", t.signerType, " signer method '">> \o t.req.data.method
    \o <<"' for chain ID '">> \o t.chainId \o <<"'.">>

\* `No ${signerType} signer method '${method}' for chain ID '${chainId}'.`
NoSignerMethod(t) ==
  <<"No ", t.signerType, " signer method '">> \o t.method
    \o <<"' for chain ID '">> \o t.chainId \o <<"'.">>

\* `No method '${method}' on target.`
NoTargetMethod(t) == <<"No method '">> \o t.method \o <<"' on target.">>

\* method in obj && typeof obj[method] === 'function', obj the target or a signer
IsFunctionOn(method) == method = MethodName /\ opts.method = "function"

\* Variant of CallMethod: a property that is there is called, function or not.
CallMethodIfPresent(t) ==
  IF ~(t.method = MethodName /\ opts.method # "absent")
  THEN Finish(t, Caught(Error(IF IsSigner(t) THEN NoSignerMethod(t) ELSE NoTargetMethod(t))))
  ELSE Invoke(t, IF IsSigner(t) THEN "signer" ELSE "target", t.method, t.params, "awaitMethod")

\* client.ts:630-641 and 666-670: check the method and call it.
CallMethod(t) ==
  IF ~IsFunctionOn(t.method)
  THEN Finish(t, Caught(Error(IF IsSigner(t) THEN NoSignerMethod(t) ELSE NoTargetMethod(t))))
  ELSE Invoke(t, IF IsSigner(t) THEN "signer" ELSE "target", t.method, t.params, "awaitMethod")

\* Variant of CallOriginal: the two signer providers are taken for each other.
CallOriginalSwapped(t) ==
  IF IsSigner(t)
  THEN Invoke(t, IF t.signerType = "direct" THEN "getOfflineSignerAmino"
                                            ELSE "getOfflineSignerDirect",
              <<>>, t.chainId, "awaitProvider")
  ELSE CallMethod(t)

\* client.ts:625-629 and 665: if (!msg), get the signer, or go to the target.
CallOriginal(t) ==
  IF IsSigner(t)
  THEN Invoke(t, IF t.signerType = "direct" THEN "getOfflineSignerDirect"
                                            ELSE "getOfflineSignerAmino",
              <<>>, t.chainId, "awaitProvider")
  ELSE CallMethod(t)

\* client.ts:615-618 and 655-658: overrides && method in overrides
TryOverride(t) ==
  IF t.method \in OverrideKeys
  THEN Invoke(t, IF IsSigner(t) THEN "signerOverride" ELSE "nonSignerOverride",
              t.method, t.params, "awaitOverride")
  ELSE CallOriginal(t)

\* client.ts:611-614 and 650-653: typeof overrides === 'function' ? await ... : ...
GetOverrides(t) ==
  IF opts.overrides = "factory"
  THEN Invoke(t, IF IsSigner(t) THEN "signerOverrides" ELSE "nonSignerOverrides",
              <<>>, IF IsSigner(t) THEN t.chainId ELSE <<>>, "awaitFactory")
  ELSE TryOverride(t)

\* internalMethods (client.ts:542-545)
\* typeof internalMethods[method] === 'function': the table is a plain
\* object, so the names it inherits are found too.
IsInternalFunction(method) == method \in InternalMethod \cup ObjectPrototype

InternalResult(method) ==
  IF method = IsCosmiframe THEN "true"
  ELSE IF method = GetMetadata THEN "metadata" ELSE "[object Object]"

\* Variant of Try: an empty chain id counts as one.
TryEmptyChainId(t) ==
  IF t.internal
  THEN IF ~IsInternalFunction(t.method)
       THEN Finish(t, Caught(Error(<<"Unknown internal method: ">> \o t.method)))
       ELSE Finish(Invoke(t, "internal", t.method, t.params, "post"),
                   SuccessMsg(InternalResult(t.method)))
  ELSE IF IsSigner(t) /\ t.chainId = UNDEF
       THEN Finish(t, Caught(Error(<<"Missing chainId in signer message request">>)))
       ELSE GetOverrides(t)

\* Variant of Try: the signer kind is looked at before the internal flag.
TrySignerFirst(t) ==
  IF IsSigner(t)
  THEN IF ~Truthy(t.chainId)
       THEN Finish(t, Caught(Error(<<"Missing chainId in signer message request">>)))
       ELSE GetOverrides(t)
  ELSE IF t.internal
       THEN IF ~IsInternalFunction(t.method)
            THEN Finish(t, Caught(Error(<<"Unknown internal method: ">> \o t.method)))
            ELSE Finish(Invoke(t, "internal", t.method, t.params, "post"),
                        SuccessMsg(InternalResult(t.method)))
       ELSE GetOverrides(t)

\* Variant of Try: the chain id is not looked at.
TryNoChainIdCheck(t) ==
  IF t.internal
  THEN IF ~IsInternalFunction(t.method)
       THEN Finish(t, Caught(Error(<<"Unknown internal method: ">> \o t.method)))
       ELSE Finish(Invoke(t, "internal", t.method, t.params, "post"),
                   SuccessMsg(InternalResult(t.method)))
  ELSE GetOverrides(t)

\* client.ts:586-608: the head of the try block.
Try(t) ==
  IF t.internal
  THEN IF ~IsInternalFunction(t.method)
       THEN Finish(t, Caught(Error(<<"Unknown internal method: ">> \o t.method)))
       ELSE Finish(Invoke(t, "internal", t.method, t.params, "post"),
                   SuccessMsg(InternalResult(t.method)))
  ELSE IF IsSigner(t) /\ ~Truthy(t.chainId)
       THEN Finish(t, Caught(Error(<<"Missing chainId in signer message request">>)))
       ELSE GetOverrides(t)

\* Variant of NewTask: the deprecated signType comes first.
NewTaskSignTypeFirst(ev) ==
  [ req |-> ev, id |-> ev.data.id, origin |-> ev.origin, params |-> ev.data.params,
    chainId |-> ev.data.chainId, internal |-> ev.data.internal,
    signerType |-> IF ev.data.signType # "undefined" THEN ev.data.signType
                                                     ELSE ev.data.signerType,
    method |-> ReplaceSignerPrefix(ev.data.method),
    pc |-> "try", msg |-> NoMsg, inv |-> <<>>, handler |-> NoHandler,
    signer |-> FALSE, resolved |-> ABSENT, thrown |-> NoThrow ]

\* client.ts:578-583: the fields of the request, signerType ||= signType, and
\* the legacy prefix removed; req keeps the event as it came.
NewTask(ev) ==
  [ req |-> ev, id |-> ev.data.id, origin |-> ev.origin, params |-> ev.data.params,
    chainId |-> ev.data.chainId, internal |-> ev.data.internal,
    signerType |-> IF ev.data.signerType # "undefined" THEN ev.data.signerType
                                                       ELSE ev.data.signType,
    method |-> ReplaceSignerPrefix(ev.data.method),
    pc |-> "try", msg |-> NoMsg, inv |-> <<>>, handler |-> NoHandler,
    signer |-> FALSE, resolved |-> ABSENT, thrown |-> NoThrow ]

(***************************************************************************)
(* The dispatcher's actions.                                               *)
(***************************************************************************)
\* Variant of Response: posted to any origin, as the listener did before
\* it kept the request's origin (client.ts:202-208).
ResponseToAnyOrigin(t, i) ==
  [ to |-> iframeWindow, targetOrigin |-> "*", id |-> t.id,
    type |-> t.msg.type, response |-> t.msg.response, error |-> t.msg.error,
    task |-> i ]

\* Variant of Response: the k-th message posted answers the k-th request
\* accepted.
ResponseInOrder(t, i) ==
  LET k == IF Len(sent) + 1 \in DOMAIN tasks THEN Len(sent) + 1 ELSE i
  IN [ to |-> iframeWindow, targetOrigin |-> t.origin,
       id |-> IF k = i THEN t.id ELSE tasks[k].id,
       type |-> t.msg.type, response |-> t.msg.response, error |-> t.msg.error,
       task |-> k ]

\* The message posted at client.ts:686-692.
Response(t, i) ==
  [ to |-> iframeWindow, targetOrigin |-> t.origin, id |-> t.id,
    type |-> t.msg.type, response |-> t.msg.response, error |-> t.msg.error,
    task |-> i ]

\* Variant of Continue: the message is posted in the try block and again
\* after it.
ContinueTwice(i, t) ==
  LET put(u) == IF i > Len(tasks) THEN Append(tasks, u) ELSE [tasks EXCEPT ![i] = u]
      m == [ to |-> iframeWindow, targetOrigin |-> t.origin, id |-> t.id,
             type |-> t.msg.type, response |-> t.msg.response, error |-> t.msg.error,
             task |-> i ]
  IN IF t.pc = "post"
     THEN /\ tasks' = put([t EXCEPT !.pc = "done"])
          /\ sent' = IF iframeWindow # "null" THEN Append(Append(sent, m), m) ELSE sent
     ELSE /\ tasks' = put(t)
          /\ sent' = sent

\* Task i has run to its next await, or out of the try block: then
\* iframe.contentWindow?.postMessage({ ...msg, id }, origin).
Continue(i, t) ==
  LET put(u) == IF i > Len(tasks) THEN Append(tasks, u) ELSE [tasks EXCEPT ![i] = u]
  IN IF t.pc = "post"
     THEN /\ tasks' = put([t EXCEPT !.pc = "done"])
          /\ sent' = IF iframeWindow # "null" THEN Append(sent, Response(t, i)) ELSE sent
     ELSE /\ tasks' = put(t)
          /\ sent' = sent

\* Variant of Accepts: the source of the event is not compared.
AcceptsAnySource(ev) ==
  IsOriginAllowed(ListenOrigins, ev.origin) /\ HasRequiredFields(ev.data)

\* Variant of Accepts: the origin of the event is not compared.
AcceptsAnyOrigin(ev) ==
  ev.source = iframeWindow /\ HasRequiredFields(ev.data)

\* client.ts:557-576: the source, origin and shape checks.
Accepts(ev) ==
  /\ ev.source = iframeWindow
  /\ IsOriginAllowed(ListenOrigins, ev.origin)
  /\ HasRequiredFields(ev.data)

\* A message event reaches the listener (client.ts:547-583, and on to the
\* first await).  Without a contentWindow the listener throws at once
\* (553-555); a method that is no string makes method.replace throw (583),
\* before the try block.
Receive(ev, n) ==
  /\ Len(tasks) < n
  /\ IF iframeWindow = "null" \/ ~Accepts(ev)
     THEN UNCHANGED <<tasks, sent>>
     ELSE IF ev.data.method = NonString
          THEN /\ tasks' = Append(tasks, [NewTask(ev) EXCEPT !.pc = "threw"])
               /\ sent' = sent
          ELSE Continue(Len(tasks) + 1, Try(NewTask(ev)))
  /\ received' = ev
  /\ UNCHANGED <<opts, iframeWindow, cvars>>

\* The awaited callable of task t threw (or rejected with) e.
Throws(t, e) == Finish([t EXCEPT !.thrown = e], Caught(e))

\* await signerOverrides(chainId) / await nonSignerOverrides() settles.
ResumeFactory(i, e) ==
  /\ tasks[i].pc = "awaitFactory"
  /\ Continue(i, IF e = NoThrow THEN TryOverride(tasks[i])
                                ELSE Throws(tasks[i], e))
  /\ received' = NoEvent
  /\ UNCHANGED <<opts, iframeWindow, cvars>>

\* Variant of Handled: the original method is called whatever the override
\* has returned.
HandledThenOriginal(t, handler) == CallOriginal([t EXCEPT !.handler = handler])

\* client.ts:616-621 and 656-661: the override handler settles.
Handled(t, handler) ==
  LET handledMsg == ProcessOverrideHandler(handler)
      u == [t EXCEPT !.handler = handler]
  IN IF handledMsg # NoMsg THEN Finish(u, handledMsg) ELSE CallOriginal(u)

ResumeOverride(i, e, handler) ==
  /\ tasks[i].pc = "awaitOverride"
  /\ Continue(i, IF e = NoThrow THEN Handled(tasks[i], handler)
                                ELSE Throws(tasks[i], e))
  /\ received' = NoEvent
  /\ UNCHANGED <<opts, iframeWindow, cvars>>

\* await getOfflineSignerDirect(chainId) / getOfflineSignerAmino(chainId) settles.
ResumeProvider(i, e) ==
  /\ tasks[i].pc = "awaitProvider"
  /\ Continue(i, IF e = NoThrow THEN CallMethod([tasks[i] EXCEPT !.signer = TRUE])
                                ELSE Throws(tasks[i], e))
  /\ received' = NoEvent
  /\ UNCHANGED <<opts, iframeWindow, cvars>>

\* await signer[method](...params) / await target[method](...params) settles.
ResumeMethod(i, e, response) ==
  /\ tasks[i].pc = "awaitMethod"
  /\ Continue(i, IF e = NoThrow
                 THEN Finish([tasks[i] EXCEPT !.resolved = response], SuccessMsg(response))
                 ELSE Throws(tasks[i], e))
  /\ received' = NoEvent
  /\ UNCHANGED <<opts, iframeWindow, cvars>>

\* The iframe element is taken out of the document: contentWindow is null.
DetachIframe ==
  /\ iframeWindow = "iframe"
  /\ iframeWindow' = "null"
  /\ received' = NoEvent
  /\ UNCHANGED <<opts, tasks, sent, cvars>>

(***************************************************************************)
(* The correlator: callParentMethod(message, origins, timeout).            *)
(* src/ holds its body as it was before the origins and the timeout were   *)
(* added (utils.ts:13-53); what those two add is modelled from the         *)
(* specification (section 4.2).                                            *)
(***************************************************************************)
\* new Cosmiframe(allowedParentOrigins) (client.ts:321-335): whether it
\* throws, and the value of #allowedOrigins.
UNSAFE_ALLOW_ANY_ORIGIN == "UNSAFE_ALLOW_ANY_ORIGIN"
Includes(list, s) == \E i \in 1..Len(list) : list[i] = Str(s)
\* Variant of Constructor: the literal "*" is let through.
ConstructorWildcard(allowedParentOrigins) ==
  IF Len(allowedParentOrigins) = 0
  THEN [threw |-> TRUE, allowedOrigins |-> <<>>]
  ELSE [threw |-> FALSE,
        allowedOrigins |-> IF Includes(allowedParentOrigins, UNSAFE_ALLOW_ANY_ORIGIN)
                           THEN <<Str("*")>> ELSE allowedParentOrigins]

Constructor(allowedParentOrigins) ==
  IF Len(allowedParentOrigins) = 0 \/ Includes(allowedParentOrigins, "*")
  THEN [threw |-> TRUE, allowedOrigins |-> <<>>]
  ELSE [threw |-> FALSE,
        allowedOrigins |-> IF Includes(allowedParentOrigins, UNSAFE_ALLOW_ANY_ORIGIN)
                           THEN <<Str("*")>> ELSE allowedParentOrigins]

\* The lists a client of the model is constructed with.
ParentOrigins ==
  { <<>>, <<Str("*")>>, <<Str(OriginA), Str("*")>>, <<Str(UNSAFE_ALLOW_ANY_ORIGIN)>>,
    <<Str(OriginA), Str(UNSAFE_ALLOW_ANY_ORIGIN)>>, <<Str(OriginA)>>,
    <<Str(OriginA), Re("daodao\\.zone$")>> }

\* No client has been constructed.
NoClient == [given |-> <<>>, state |-> "none"]

\* The errors a call rejects with.
ResponseError(message) == [name |-> "Error", message |-> message]
CosmiframeTimeoutError == [name |-> "CosmiframeTimeoutError", message |-> <<"Timed out.">>]
DataCloneError == [name |-> "DataCloneError", message |-> <<"could not be cloned.">>]
NoError == [name |-> "none", message |-> UNDEF]

\* resolve(value) and reject(error) of the call's promise: only the first
\* settles it; settles counts them all.
Resolve(c, result, origin) ==
  IF c.state # "pending" THEN [c EXCEPT !.settles = @ + 1]
  ELSE [c EXCEPT !.settles = @ + 1, !.state = "resolved", !.result = result,
                 !.origin = origin]
Reject(c, error) ==
  IF c.state # "pending" THEN [c EXCEPT !.settles = @ + 1]
  ELSE [c EXCEPT !.settles = @ + 1, !.state = "rejected", !.error = error]

\* Variant of IdMatches: the id is not compared.
IdMatchesAny(c, ev) == TRUE

\* utils.ts:23: data.id !== id
IdMatches(c, ev) == ev.data.id = c.id

\* Variant of FromAllowedParent: the source of the event is not compared.
FromAllowedOrigin(c, ev) == IsOriginAllowed(allowedOrigins, ev.origin)

\* The source is the parent window and the origin is allowed.
FromAllowedParent(c, ev) ==
  ev.source = "parent" /\ IsOriginAllowed(allowedOrigins, ev.origin)

\* Variant of Settle: the type of the response is not read.
SettleResolves(c, ev) == Resolve(c, ev.data.response, ev.origin)

\* utils.ts:30-34: resolve on success, reject otherwise.
Settle(c, ev) ==
  IF ev.data.type = "success"
  THEN Resolve(c, ev.data.response, ev.origin)
  ELSE Reject(c, ResponseError(ev.data.error))

\* Variant of ClearTimer: the timer is left running.
ClearTimerNever(c) == c

\* clearTimeout of the call's timer, if it has one.
ClearTimer(c) == [c EXCEPT !.timer = IF @ = "set" THEN "cleared" ELSE @]

\* Variant of Listener: the listener does not remove itself.
ListenerStays(c, ev) ==
  IF ~c.listener \/ ~IdMatches(c, ev) \/ ~FromAllowedParent(c, ev)
  THEN c
  ELSE Settle(ClearTimer(c), ev)

\* utils.ts:21-35: the call's message listener.
Listener(c, ev) ==
  IF ~c.listener \/ ~IdMatches(c, ev) \/ ~FromAllowedParent(c, ev)
  THEN c
  ELSE Settle(ClearTimer([c EXCEPT !.listener = FALSE]), ev)

\* isReady's timeout (client.ts:417); 0 stands for no timeout.
ReadyTimeout == 500

\* Variant of NewCall: a post that throws leaves the listener registered.
NewCallLeak(id, message, timeout, postThrows) ==
  LET c == [ id |-> id, message |-> message, timeout |-> timeout, listener |-> TRUE,
             timer |-> "none", state |-> "pending", result |-> ABSENT,
             origin |-> "none", error |-> NoError, settles |-> 0 ]
  IN IF postThrows
     THEN Reject(c, DataCloneError)
     ELSE [c EXCEPT !.timer = IF timeout > 0 THEN "set" ELSE "none"]

\* utils.ts:16-53: mint the id, add the listener, post the request; when the
\* post throws, remove the listener and reject; else start the timer.
NewCall(id, message, timeout, postThrows) ==
  LET c == [ id |-> id, message |-> message, timeout |-> timeout, listener |-> TRUE,
             timer |-> "none", state |-> "pending", result |-> ABSENT,
             origin |-> "none", error |-> NoError, settles |-> 0 ]
  IN IF postThrows
     THEN Reject([c EXCEPT !.listener = FALSE], DataCloneError)
     ELSE [c EXCEPT !.timer = IF timeout > 0 THEN "set" ELSE "none"]

\* The calls the app makes: isReady's probe with its timeout, and a method
\* of the target with none.
ProbeMessage == [method |-> IsCosmiframe, params |-> <<>>, internal |-> TRUE]
EnableMessage == [method |-> <<"enable">>, params |-> <<"cosmoshub-4">>, internal |-> FALSE]

\* The data of the messages that reach the iframe's window.
ResponseValues == {"undefined", "v1"}
ResponseData ==
  { [id |-> id, type |-> "success", response |-> v, error |-> UNDEF] :
      id \in 1..(MaxCalls + 1), v \in ResponseValues }
  \cup { [id |-> id, type |-> "error", response |-> ABSENT, error |-> <<"e1">>] :
           id \in 1..(MaxCalls + 1) }
ResponseEvents == [source : {"parent", "other"}, origin : Origins, data : ResponseData]

\* Variant of CallParentMethod: every call gets the same id.
CallParentMethodSameId(message, timeout, postThrows) ==
  /\ Len(calls) < MaxCalls
  /\ calls' = Append(calls, NewCall(1, message, timeout, postThrows))
  /\ outbox' = IF postThrows THEN outbox
               ELSE Append(outbox, [id |-> 1, message |-> message, targetOrigin |-> "*"])
  /\ lastEvent' = NoEvent
  /\ UNCHANGED <<inIframe, client, allowedOrigins, dvars>>

\* callParentMethod(message, origins, timeout); uuidv4() gives an id no other
\* call has.
CallParentMethod(message, timeout, postThrows) ==
  /\ Len(calls) < MaxCalls
  /\ LET id == Len(calls) + 1
     IN /\ calls' = Append(calls, NewCall(id, message, timeout, postThrows))
        /\ outbox' = IF postThrows THEN outbox
                     ELSE Append(outbox, [id |-> id, message |-> message,
                                          targetOrigin |-> "*"])
  /\ lastEvent' = NoEvent
  /\ UNCHANGED <<inIframe, client, allowedOrigins, dvars>>

\* Variant of Deliver: a call that an error response rejects posts its
\* request once more.
DeliverAndRetry(ev) ==
  LET failed == { i \in DOMAIN calls :
                    /\ calls[i].state = "pending"
                    /\ Listener(calls[i], ev).state = "rejected" }
  IN /\ calls' = [i \in DOMAIN calls |-> Listener(calls[i], ev)]
     /\ outbox' = IF failed = {} THEN outbox
                  ELSE LET i == CHOOSE j \in failed : TRUE
                       IN Append(outbox, [id |-> calls[i].id, message |-> calls[i].message,
                                          targetOrigin |-> "*"])
     /\ lastEvent' = ev
     /\ UNCHANGED <<inIframe, returned, client, allowedOrigins, dvars>>

\* A message event is dispatched at the iframe's window: every listener runs.
Deliver(ev) ==
  /\ calls' = [i \in DOMAIN calls |-> Listener(calls[i], ev)]
  /\ lastEvent' = ev
  /\ UNCHANGED <<inIframe, returned, client, allowedOrigins, outbox, dvars>>

\* Variant of TimerFires: the listener stays registered.
TimerFiresListening(i) ==
  /\ calls[i].timer = "set"
  /\ calls' = [calls EXCEPT ![i] = Reject([@ EXCEPT !.timer = "fired"], CosmiframeTimeoutError)]
  /\ lastEvent' = NoEvent
  /\ UNCHANGED <<inIframe, returned, client, allowedOrigins, outbox, dvars>>

\* The timer of call i fires: remove the listener and reject.
TimerFires(i) ==
  /\ calls[i].timer = "set"
  /\ calls' = [calls EXCEPT ![i] =
                 Reject([@ EXCEPT !.listener = FALSE, !.timer = "fired"],
                        CosmiframeTimeoutError)]
  /\ lastEvent' = NoEvent
  /\ UNCHANGED <<inIframe, returned, client, allowedOrigins, outbox, dvars>>

\* new Cosmiframe(allowedParentOrigins) (client.ts:312-335): it throws, or
\* the client has its #allowedOrigins.
NewCosmiframe(allowedParentOrigins) ==
  /\ client = NoClient
  /\ LET made == Constructor(allowedParentOrigins)
     IN /\ client' = [given |-> allowedParentOrigins,
                      state |-> IF made.threw THEN "threw" ELSE "ok"]
        /\ allowedOrigins' = made.allowedOrigins
  /\ lastEvent' = NoEvent
  /\ UNCHANGED <<inIframe, returned, calls, outbox, dvars>>

(***************************************************************************)
(* The client's API in the iframe: isReady and the proxies p and           *)
(* getKeplrClient().  Each use is recorded in returned with the call of    *)
(* callParentMethod it made (call, 0 for none) or the value it gave        *)
(* without one (local).                                                    *)
(***************************************************************************)
Pending == [state |-> "pending", value |-> ABSENT, error |-> NoError]
Fulfilled(v) == [state |-> "fulfilled", value |-> v, error |-> NoError]
Rejected(e) == [state |-> "rejected", value |-> ABSENT, error |-> e]

\* a || b on the values of the model.
Falsy == {"undefined", "null", "0", "false", ""}
Or(a, b) == IF a \notin Falsy THEN a ELSE b

\* Variant of IsReadyResult: every error is taken for "not ready".
IsReadyCatchAll(c) ==
  IF c.state = "pending" THEN Pending
  ELSE IF c.state = "resolved" THEN Fulfilled(Or(c.origin, c.result))
  ELSE Fulfilled("false")

\* client.ts:408-429: return origin || result; a CosmiframeTimeoutError is
\* false, any other error is thrown again.
IsReadyResult(c) ==
  IF c.state = "pending" THEN Pending
  ELSE IF c.state = "resolved" THEN Fulfilled(Or(c.origin, c.result))
  ELSE IF c.error = CosmiframeTimeoutError THEN Fulfilled("false")
  ELSE Rejected(c.error)

\* .then(({ result }) => result) (client.ts:364-367)
ThenResult(c) ==
  IF c.state = "pending" THEN Pending
  ELSE IF c.state = "resolved" THEN Fulfilled(c.result)
  ELSE Rejected(c.error)

\* CosmiframeEitherSigner.getAccounts (signers.ts:232-259): the result of
\* the amino call, or, once that has rejected, what the direct call (entry
\* fallback of calls, 0 while it has not been made) comes to.
EitherResult(r) ==
  IF calls[r.call].state = "pending" THEN Pending
  ELSE IF calls[r.call].state = "resolved" THEN Fulfilled(calls[r.call].result)
  ELSE IF r.fallback = 0 THEN Pending
  ELSE ThenResult(calls[r.fallback])

\* What the app holds for entry r of returned.
Outcome(r) ==
  IF r.call = 0 THEN Fulfilled(r.local)
  ELSE IF r.api = "isReady" THEN IsReadyResult(calls[r.call])
  ELSE IF r.api = "either" THEN EitherResult(r)
  ELSE ThenResult(calls[r.call])

Returned(api, name, chainId, params, call, local) ==
  [ api |-> api, name |-> name, chainId |-> chainId, params |-> params,
    call |-> call, local |-> local, fallback |-> 0 ]

\* isReady() (client.ts:403-430): false outside an iframe, else the probe
\* with its timeout.
IsReady(postThrows) ==
  /\ client.state = "ok"
  /\ Len(returned) < MaxCalls
  /\ IF ~inIframe
     THEN /\ returned' = Append(returned, Returned("isReady", <<>>, "", <<>>, 0, "false"))
          /\ lastEvent' = NoEvent
          /\ UNCHANGED <<inIframe, client, allowedOrigins, calls, outbox, dvars>>
     ELSE /\ CallParentMethod(ProbeMessage, ReadyTimeout, postThrows)
          /\ returned' = Append(returned, Returned("isReady", <<>>, "", <<>>,
                                                   Len(calls) + 1, "none"))

\* The get handler of a proxy (client.ts:351-368, 477-488), and the call of
\* what it gives: a function found on the object behind the proxy, own or
\* inherited, is called there; any other name goes to the parent, without a
\* timeout.
Forward(r, name, params, postThrows) ==
  /\ client.state = "ok"
  /\ Len(returned) < MaxCalls
  /\ IF name \in ObjectPrototype
     THEN /\ returned' = Append(returned, [r EXCEPT !.call = 0, !.local = "[object Object]"])
          /\ lastEvent' = NoEvent
          /\ UNCHANGED <<inIframe, client, allowedOrigins, calls, outbox, dvars>>
     ELSE /\ CallParentMethod([method |-> name, params |-> params, internal |-> FALSE],
                              0, postThrows)
          /\ returned' = Append(returned, [r EXCEPT !.call = Len(calls) + 1, !.local = "none"])

\* proxy[name](...params)
ProxyCall(proxy, name, params, postThrows) ==
  Forward(Returned(proxy, name, "", params, 0, "none"), name, params, postThrows)

\* The functions of getEnigmaUtils(chainId) and the methods of the parent
\* they call (client.ts:342-349, 466-472).
EnigmaUtils == {"getPubkey", "decrypt", "encrypt", "getTxEncryptionKey"}
EnigmaMethod(fn) ==
  IF fn = "getPubkey" THEN <<"getEnigmaPubKey">>
  ELSE IF fn = "decrypt" THEN <<"enigmaDecrypt">>
  ELSE IF fn = "encrypt" THEN <<"enigmaEncrypt">>
  ELSE <<"getEnigmaTxEncryptionKey">>

\* Variant of EnigmaParams: the chain id comes last.
EnigmaParamsChainIdLast(fn, chainId, params) ==
  IF fn = "getPubkey" THEN <<chainId>> ELSE params \o <<chainId>>

\* (chainId) for getPubkey, (chainId, ...params) for the others.
EnigmaParams(fn, chainId, params) ==
  IF fn = "getPubkey" THEN <<chainId>> ELSE <<chainId>> \o params

\* proxy.getEnigmaUtils(chainId)[fn](...params)
EnigmaCall(proxy, chainId, fn, params, postThrows) ==
  Forward(Returned(proxy, <<"getEnigmaUtils", fn>>, chainId, params, 0, "none"),
          EnigmaMethod(fn), EnigmaParams(fn, chainId, params), postThrows)

\* The request of a signer's getAccounts (signers.ts:143-148, 188-193,
\* 237-242, 249-254).
GetAccountsMessage(chainId, signerType) ==
  [ method |-> <<"getAccounts">>, params |-> <<>>, internal |-> FALSE,
    chainId |-> chainId, signerType |-> signerType ]

\* Variant of FallbackDue: the direct call does not wait for the amino call.
FallbackDueAtOnce(r) == r.api = "either" /\ r.fallback = 0

\* The amino call of an either signer has rejected and its catch block has
\* not run yet.
FallbackDue(r) ==
  r.api = "either" /\ r.fallback = 0 /\ calls[r.call].state = "rejected"

\* No catch block is waiting to run: it runs before the next event.
NoCatchDue == \A n \in DOMAIN returned : ~FallbackDue(returned[n])

\* The calls that the catch blocks of the either signers may still make.
Reserved ==
  Cardinality({ n \in DOMAIN returned :
                  /\ returned[n].api = "either" /\ returned[n].fallback = 0
                  /\ calls[returned[n].call].state # "resolved" })

\* getAccounts() of the signer that getOfflineSignerAmino ("amino"),
\* getOfflineSignerDirect ("direct") or getOfflineSigner ("either") gives:
\* up to the first await (signers.ts:140-152, 185-197, 232-245).
GetAccounts(signer, chainId, postThrows) ==
  /\ client.state = "ok"
  /\ NoCatchDue
  /\ Len(returned) < MaxCalls
  /\ Len(calls) + Reserved + (IF signer = "either" THEN 1 ELSE 0) < MaxCalls
  /\ CallParentMethod(GetAccountsMessage(chainId, IF signer = "direct" THEN "direct"
                                                                       ELSE "amino"),
                      0, postThrows)
  /\ returned' = Append(returned, Returned(signer, <<"getAccounts">>, chainId, <<>>,
                                           Len(calls) + 1, "none"))

\* The catch block of the either signer's getAccounts (signers.ts:246-258).
EitherCatch(n, postThrows) ==
  /\ FallbackDue(returned[n])
  /\ CallParentMethod(GetAccountsMessage(returned[n].chainId, "direct"), 0, postThrows)
  /\ returned' = [returned EXCEPT ![n].fallback = Len(calls) + 1]

IdleApp ==
  /\ client = NoClient
  /\ allowedOrigins = <<>>
  /\ calls = <<>>
  /\ outbox = <<>>
  /\ lastEvent = NoEvent
  /\ inIframe = TRUE
  /\ returned = <<>>

Init ==
  /\ opts \in ListenOptions
  /\ iframeWindow = "iframe"
  /\ tasks = <<>>
  /\ sent = <<>>
  /\ received = NoEvent
  /\ IdleApp

\* The listener with the events it may get and the requests it may accept.
Listen(events, n) ==
  \/ \E ev \in events : Receive(ev, n)
  \/ \E i \in 1..Len(tasks), e \in Thrown \cup {NoThrow} : ResumeFactory(i, e)
  \/ \E i \in 1..Len(tasks), e \in Thrown \cup {NoThrow}, handler \in OverrideHandlers :
       ResumeOverride(i, e, handler)
  \/ \E i \in 1..Len(tasks), e \in Thrown \cup {NoThrow} : ResumeProvider(i, e)
  \/ \E i \in 1..Len(tasks), e \in Thrown \cup {NoThrow}, response \in Values :
       ResumeMethod(i, e, response)
  \/ DetachIframe

vars == <<dvars, cvars>>

\* One request, any request of the model, through the listener.
Next == Listen(MessageEvents, 1)
Spec == Init /\ [][Next]_vars

\* The app in the iframe: a client that was constructed, and its calls.
InitCall ==
  /\ opts = [overrides |-> "none", method |-> "function", origins |-> <<>>]
  /\ iframeWindow = "iframe"
  /\ tasks = <<>>
  /\ sent = <<>>
  /\ received = NoEvent
  /\ client = NoClient
  /\ allowedOrigins = <<>>
  /\ calls = <<>>
  /\ outbox = <<>>
  /\ lastEvent = NoEvent
  /\ inIframe = TRUE
  /\ returned = <<>>

NextCall ==
  \/ \E l \in ParentOrigins : NewCosmiframe(l)
  \/ \E postThrows \in BOOLEAN :
       /\ client.state = "ok"
       /\ \/ CallParentMethod(ProbeMessage, ReadyTimeout, postThrows)
          \/ CallParentMethod(EnableMessage, 0, postThrows)
       /\ UNCHANGED returned
  \/ \E ev \in ResponseEvents : Deliver(ev)
  \/ \E i \in 1..Len(calls) : TimerFires(i)

SpecCall == InitCall /\ [][NextCall]_vars

\* The app uses the client's API: isReady, p and the Keplr client, with the
\* parent at an allowed origin or at another.
ClientOrigins == { <<Str(OriginA)>>, <<Str(UNSAFE_ALLOW_ANY_ORIGIN)>> }
ProxyNames == { <<"enable">>, ObjectToString }
ProxyParams == { <<>>, <<"a1">> }
ClientEvents ==
  { [source |-> "parent", origin |-> o, data |-> d] :
      o \in {OriginA, OriginEvil},
      d \in { [id |-> id, type |-> "success", response |-> "true", error |-> UNDEF] :
                id \in 1..MaxCalls }
            \cup { [id |-> id, type |-> "error", response |-> ABSENT, error |-> <<"e1">>] :
                     id \in 1..MaxCalls } }

InitClient ==
  /\ opts = [overrides |-> "none", method |-> "function", origins |-> <<>>]
  /\ iframeWindow = "iframe"
  /\ tasks = <<>>
  /\ sent = <<>>
  /\ received = NoEvent
  /\ client = NoClient
  /\ allowedOrigins = <<>>
  /\ calls = <<>>
  /\ outbox = <<>>
  /\ lastEvent = NoEvent
  /\ inIframe \in BOOLEAN
  /\ returned = <<>>

NextClient ==
  \/ \E l \in ClientOrigins : NewCosmiframe(l)
  \/ \E postThrows \in BOOLEAN : IsReady(postThrows)
  \/ \E name \in ProxyNames, params \in ProxyParams, postThrows \in BOOLEAN :
       ProxyCall("p", name, params, postThrows)
  \/ \E proxy \in {"p", "keplr"}, fn \in EnigmaUtils, params \in ProxyParams :
       EnigmaCall(proxy, "secret-4", fn, params, FALSE)
  \/ \E ev \in ClientEvents : Deliver(ev)
  \/ \E i \in 1..Len(calls) : TimerFires(i)

SpecClient == InitClient /\ [][NextClient]_vars

\* The app uses the signers of the client; the parent answers.
InitSigner ==
  /\ opts = [overrides |-> "none", method |-> "function", origins |-> <<>>]
  /\ iframeWindow = "iframe"
  /\ tasks = <<>>
  /\ sent = <<>>
  /\ received = NoEvent
  /\ IdleApp

NextSigner ==
  \/ \E l \in ClientOrigins : NewCosmiframe(l)
  \/ \E signer \in {"amino", "direct", "either"}, postThrows \in BOOLEAN :
       GetAccounts(signer, "cosmoshub-4", postThrows)
  \/ \E n \in DOMAIN returned, postThrows \in BOOLEAN : EitherCatch(n, postThrows)
  \/ \E ev \in ClientEvents : NoCatchDue /\ Deliver(ev)

SpecSigner == InitSigner /\ [][NextSigner]_vars

\* Several requests in flight together.
NextConcurrent == Listen(ConcurrentEvents, MaxTasks)
SpecConcurrent == Init /\ [][NextConcurrent]_vars

(***************************************************************************)
(* Properties of the correlator (SpecCall).                                *)
(***************************************************************************)
\* The event comes from the parent window at an origin of the allow-list.
Trusted(ev) == ev.source = "parent" /\ IsOriginAllowed(allowedOrigins, ev.origin)

\* The event carries the id of call c.
Answers(ev, c) == ev # NoEvent /\ ev.data.id = c.id

\* C1: a success response with the id of a pending call, from the parent at
\* an allowed origin, resolves the call with that response's value and the
\* origin of that event; a call only ever resolves in the step that delivers
\* a response with its own id, with the value of that response, and once
\* resolved it keeps its value.
C1_SuccessResolvesItsCall ==
  [][ \A i \in DOMAIN calls :
        /\ ( /\ calls[i].state = "pending"
             /\ Answers(lastEvent', calls[i])
             /\ lastEvent'.data.type = "success"
             /\ Trusted(lastEvent') )
           => /\ calls'[i].state = "resolved"
              /\ calls'[i].result = lastEvent'.data.response
              /\ calls'[i].origin = lastEvent'.origin
        /\ (calls[i].state = "pending" /\ calls'[i].state = "resolved")
           => /\ Answers(lastEvent', calls[i])
              /\ calls'[i].result = lastEvent'.data.response
              /\ calls'[i].origin = lastEvent'.origin
        /\ calls[i].state = "resolved"
           => /\ calls'[i].state = "resolved"
              /\ calls'[i].result = calls[i].result
              /\ calls'[i].origin = calls[i].origin
    ]_vars

\* A call is resolved by the response just delivered while another call,
\* with another id, is still pending.
C1_Witness ==
  \E i, j \in DOMAIN calls :
    /\ calls[i].state = "resolved" /\ calls[i].result = "v1"
    /\ Answers(lastEvent, calls[i]) /\ lastEvent.origin = calls[i].origin
    /\ calls[j].state = "pending" /\ calls[j].id # calls[i].id

\* C2: an error response with the id of a pending call (from the parent at
\* an allowed origin) rejects the call with an Error whose message is the
\* response's error string; a rejected call stays rejected: it never
\* resolves.
C2_ErrorRejectsItsCall ==
  [][ \A i \in DOMAIN calls :
        /\ ( /\ calls[i].state = "pending"
             /\ Answers(lastEvent', calls[i])
             /\ lastEvent'.data.type = "error"
             /\ Trusted(lastEvent') )
           => /\ calls'[i].state = "rejected"
              /\ calls'[i].error = [name |-> "Error", message |-> lastEvent'.data.error]
        /\ calls[i].state = "rejected"
           => calls'[i].state = "rejected" /\ calls'[i].error = calls[i].error
    ]_vars

\* A call is rejected by the error response just delivered.
C2_Witness ==
  \E i \in DOMAIN calls :
    /\ calls[i].state = "rejected" /\ calls[i].error.name = "Error"
    /\ Answers(lastEvent, calls[i]) /\ lastEvent.data.type = "error"
    /\ calls[i].error.message = lastEvent.data.error

\* C3: a call made with a timeout, whose timer fires before a matching
\* response has come, rejects with CosmiframeTimeoutError; from then on no
\* step changes the call (a response with its id that comes later is not
\* seen), and its promise has been settled exactly once.
C3_TimeoutRejectsOnce ==
  [][ \A i \in DOMAIN calls :
        /\ (calls[i].timer = "set" /\ calls'[i].timer = "fired")
           => /\ calls[i].state = "pending" /\ calls[i].timeout > 0
              /\ calls'[i].state = "rejected"
              /\ calls'[i].error = CosmiframeTimeoutError
              /\ calls'[i].settles = 1
              /\ ~calls'[i].listener
        /\ calls[i].timer = "fired"
           => calls'[i] = calls[i] /\ calls[i].settles = 1
    ]_vars

\* A success response with the id of a timed-out call, from the parent at
\* an allowed origin, has just been delivered.
C3_Witness ==
  \E i \in DOMAIN calls :
    /\ calls[i].timer = "fired" /\ calls[i].error = CosmiframeTimeoutError
    /\ Answers(lastEvent, calls[i]) /\ lastEvent.data.type = "success"
    /\ Trusted(lastEvent)

Responses(i) == { k \in DOMAIN sent : sent[k].task = i }

\* The event fails one of the dispatcher's three checks.
Refused(ev) ==
  \/ ev.source # iframeWindow
  \/ ~IsOriginAllowed(ListenOrigins, ev.origin)
  \/ ev.data.shape \in {"noId", "noMethod", "noParams", "string"}

\* C4: an event whose source is not the iframe's contentWindow, whose origin
\* the origin list refuses, or whose data lacks id, method or params, starts
\* no run of the listener and posts nothing: no override, signer provider
\* or target method is called for it.
C4_RefusedEventDoesNothing ==
  [][ (received' # NoEvent /\ Refused(received'))
      => tasks' = tasks /\ sent' = sent ]_vars

\* An event with all fields, at an allowed origin, from another window than
\* the iframe's, has come to a parent that has overrides and the method.
C4_Witness ==
  /\ received # NoEvent /\ received.source = "other" /\ iframeWindow = "iframe"
  /\ IsOriginAllowed(ListenOrigins, received.origin) /\ received.data.shape = "ok"
  /\ received.data.method = MethodName
  /\ opts.overrides # "none" /\ opts.method = "function"
  /\ tasks = <<>> /\ sent = <<>>

C7_ResponseToRequestOrigin ==
  \A k \in DOMAIN sent :
    LET t == tasks[sent[k].task]
    IN /\ sent[k].id = t.req.data.id
       /\ sent[k].targetOrigin = t.req.origin
       /\ sent[k].targetOrigin # "*"
       /\ sent[k].targetOrigin \in Origins
       /\ IsOriginAllowed(ListenOrigins, sent[k].targetOrigin)

\* A request with id 2 from OriginB, accepted by an origin list of ["*"],
\* has been answered.
C7_Witness ==
  \E k \in DOMAIN sent :
    /\ sent[k].id = 2 /\ sent[k].targetOrigin = OriginB
    /\ tasks[sent[k].task].req.origin = OriginB
    /\ opts.origins = <<>>


\* The callables task t called after its override returned.
AfterOverride(t) ==
  LET k == CHOOSE n \in DOMAIN t.inv : t.inv[n].fn \in {"signerOverride", "nonSignerOverride"}
  IN SubSeq(t.inv, k + 1, Len(t.inv))

\* The signer provider of task t's signer type, called with its chain id.
ProviderCall(t) ==
  [ fn |-> IF t.signerType = "direct" THEN "getOfflineSignerDirect" ELSE "getOfflineSignerAmino",
    name |-> <<>>, args |-> t.req.data.chainId ]

\* The method the request names, on the signer or on the target, called
\* with the parameters of the request.
MethodCall(t) ==
  [ fn |-> IF IsSigner(t) THEN "signer" ELSE "target",
    name |-> ReplaceSignerPrefix(t.req.data.method), args |-> t.req.data.params ]

\* C8: when the override of the requested method returns Fail, the request
\* ends in an error whose message is the override's error string, or
\* 'Handled by outer wallet.' when it gives none (no error field, or an
\* empty one), and nothing else is called.  When it returns Defer, the
\* override decides nothing: the listener goes on to the signer provider
\* (signer requests) and to the method itself, which it calls with the
\* parameters of the request; where the signer or target has no such
\* function the outcome is the error of a request without override.
C8_FailAndDefer ==
  \A i \in DOMAIN tasks :
    LET t == tasks[i]
        h == t.handler
        rest == AfterOverride(t)
    IN /\ h.type = "error"
          => /\ t.pc = "done" /\ rest = <<>>
             /\ t.msg.type = "error"
             /\ t.msg.error = IF h.error = UNDEF \/ h.error = <<>>
                              THEN <<"Handled by outer wallet.">> ELSE h.error
             /\ \A k \in Responses(i) :
                  sent[k].type = "error" /\ sent[k].error = t.msg.error
       /\ (h.type = "call" /\ ~IsSigner(t))
          => IF opts.method = "function"
             THEN rest = <<MethodCall(t)>>
             ELSE /\ rest = <<>> /\ t.pc = "done"
                  /\ t.msg = ErrorMsg(NoTargetMethod(t))
       /\ (h.type = "call" /\ IsSigner(t))
          => /\ Len(rest) >= 1 /\ rest[1] = ProviderCall(t)
             /\ t.pc = "awaitProvider" => rest = <<ProviderCall(t)>>
             /\ t.pc = "awaitMethod" => rest = <<ProviderCall(t), MethodCall(t)>>
             /\ (t.pc = "done" /\ t.msg.type = "success")
                => rest = <<ProviderCall(t), MethodCall(t)>>
             /\ Len(rest) = 2 => rest[2] = MethodCall(t) /\ opts.method = "function"

\* A signer request whose override returned Defer called the signer's
\* method with the request's parameters and was answered with its value.
C8_Witness ==
  \E i \in DOMAIN tasks :
    /\ tasks[i].handler.type = "call" /\ IsSigner(tasks[i])
    /\ tasks[i].req.data.params = <<"p1">>
    /\ AfterOverride(tasks[i]) = <<ProviderCall(tasks[i]), MethodCall(tasks[i])>>
    /\ \E k \in Responses(i) : sent[k].type = "success" /\ sent[k].response = "v1"

\* C9: when the override of the requested method returns Value v, the
\* request ends in success with response v, whatever v is (undefined, null
\* and 0 as well), and neither the signer provider nor the method is
\* called.
C9_ValueIsTheResponse ==
  \A i \in DOMAIN tasks :
    LET t == tasks[i]
    IN t.handler.type = "success"
       => /\ t.pc = "done" /\ AfterOverride(t) = <<>>
          /\ t.msg = [type |-> "success", response |-> t.handler.value, error |-> UNDEF]
          /\ \A k \in Responses(i) :
               sent[k].type = "success" /\ sent[k].response = t.handler.value

\* An override returned the value undefined and the request was answered
\* with success and that value.
C9_Witness ==
  \E i \in DOMAIN tasks :
    /\ tasks[i].handler.type = "success" /\ tasks[i].handler.value = "undefined"
    /\ \E k \in Responses(i) : sent[k].type = "success" /\ sent[k].response = "undefined"

\* The request of task t names its method with the legacy prefix before M.
HasLegacyPrefix(t) ==
  /\ t.req.data.method # NonString
  /\ Len(t.req.data.method) > 0
  /\ Head(t.req.data.method) = LegacyPrefix

\* The method name under which the listener handles the otherwise identical
\* request that names M, the method of t's request without its first prefix.
HandledAs(t) == NewTask([t.req EXCEPT !.data.method = Tail(@)]).method

\* The names under which task t looked up and called overrides and methods.
NamesCalled(t) ==
  { t.inv[k].name : k \in { n \in DOMAIN t.inv : t.inv[n].name # <<>> } }

\* The listener's run on an event up to its first await, without the event.
FirstRun(ev) == [Try(NewTask(ev)) EXCEPT !.req = NoEvent]

\* C10 as stated: for every method name M, the request 'signer:' + M is
\* handled under the same method name as the request M.
C10_PrefixIsIgnored ==
  \A i \in DOMAIN tasks :
    HasLegacyPrefix(tasks[i])
    => /\ tasks[i].method = HandledAs(tasks[i])
       /\ NamesCalled(tasks[i]) \subseteq {HandledAs(tasks[i])}

\* C10: for every method name M that does not itself begin with 'signer:',
\* the request 'signer:' + M is handled as the request M is: under the name
\* M, with the same run of the listener up to its first await (the same
\* override, provider or method called with the same arguments, or the same
\* outcome), every later call made under the name M.
C10_OnePrefixIsIgnored ==
  /\ \A i \in DOMAIN tasks :
       LET M == Tail(tasks[i].req.data.method)
       IN (HasLegacyPrefix(tasks[i]) /\ (M = <<>> \/ Head(M) # LegacyPrefix))
          => /\ tasks[i].method = M
             /\ tasks[i].method = HandledAs(tasks[i])
             /\ NamesCalled(tasks[i]) \subseteq {M}
  /\ \A ev \in MessageEvents :
       LET m == ev.data.method
       IN ( /\ ev.data.shape = "ok" /\ m # NonString
            /\ Len(m) > 1 /\ Head(m) = LegacyPrefix /\ Head(Tail(m)) # LegacyPrefix )
          => FirstRun(ev) = FirstRun([ev EXCEPT !.data.method = Tail(m)])

\* The request 'signer:getAccounts' for a signer has called the signer's
\* getAccounts and has been answered with its value.
C10_Witness ==
  \E i \in DOMAIN tasks :
    /\ tasks[i].req.data.method = <<LegacyPrefix, "getAccounts">>
    /\ IsSigner(tasks[i]) /\ tasks[i].pc = "done" /\ Len(tasks[i].inv) > 0
    /\ tasks[i].inv[Len(tasks[i].inv)] = [fn |-> "signer", name |-> <<"getAccounts">>,
                                          args |-> tasks[i].req.data.params]
    /\ \E k \in Responses(i) : sent[k].type = "success"

\* The signer kind of the request of task t: signerType, or the deprecated
\* signType when signerType is not given.
KindOf(t) ==
  IF t.req.data.signerType # "undefined" THEN t.req.data.signerType
                                         ELSE t.req.data.signType

\* Task t answers a request for a signer: no internal flag, a signer kind
\* and a chain id that is not empty.
SignerScoped(t) ==
  /\ t.pc # "threw" /\ ~t.req.data.internal
  /\ KindOf(t) # "undefined"
  /\ t.req.data.chainId # UNDEF /\ t.req.data.chainId # <<>>

\* No override handles the method of task t: none is configured, or the
\* one configured has returned Defer.
NoOverrideHandles(t) == opts.overrides = "none" \/ t.handler.type = "call"

\* What task t called once the overrides were out of the way.
OriginalCalls(t) == IF opts.overrides = "none" THEN t.inv ELSE AfterOverride(t)

\* The provider of kind K called with the chain id of the request.
ProviderOf(t) ==
  [ fn |-> IF KindOf(t) = "direct" THEN "getOfflineSignerDirect"
           ELSE "getOfflineSignerAmino",
    name |-> <<>>, args |-> t.req.data.chainId ]

\* C11: for a signer request of kind K with chain id C and method M that no
\* override handles, the first thing called is the provider of kind K
\* (direct for 'direct', amino for 'amino') with C; when the signer it
\* gives has M, M is called next on the signer with the parameters of the
\* request and nothing after it; and when M has resolved to a value the
\* request is answered with success and that value.
C11_SignerMethodIsCalled ==
  \A i \in DOMAIN tasks :
    LET t == tasks[i]
        calls2 == OriginalCalls(t)
    IN (SignerScoped(t) /\ NoOverrideHandles(t))
       => /\ Len(calls2) \in {1, 2} /\ calls2[1] = ProviderOf(t)
          /\ Len(calls2) = 2
             => /\ calls2[2] = [fn |-> "signer", name |-> ReplaceSignerPrefix(t.req.data.method),
                                args |-> t.req.data.params]
                /\ opts.method = "function"
          /\ t.pc = "awaitMethod" => Len(calls2) = 2
          /\ (t.pc = "done" /\ Len(calls2) = 1) => t.msg.type = "error"
          /\ t.resolved # ABSENT
             => /\ t.pc = "done" /\ Len(calls2) = 2
                /\ t.msg = [type |-> "success", response |-> t.resolved, error |-> UNDEF]
                /\ \A k \in Responses(i) :
                     sent[k].type = "success" /\ sent[k].response = t.resolved

\* A request of kind 'direct', given by the deprecated signType, for
\* getAccounts on cosmoshub-4 has been answered with what getAccounts of the
\* direct signer resolved to.
C11_Witness ==
  \E i \in DOMAIN tasks :
    /\ SignerScoped(tasks[i]) /\ opts.overrides = "none"
    /\ tasks[i].req.data.signerType = "undefined" /\ tasks[i].req.data.signType = "direct"
    /\ tasks[i].inv = << [fn |-> "getOfflineSignerDirect", name |-> <<>>,
                          args |-> <<"cosmoshub-4">>],
                         [fn |-> "signer", name |-> <<"getAccounts">>, args |-> <<"p1">>] >>
    /\ tasks[i].resolved = "v1"
    /\ \E k \in Responses(i) : sent[k].type = "success" /\ sent[k].response = "v1"

\* The method task t looks up: the method of its request, less the legacy
\* prefix.
Requested(t) == ReplaceSignerPrefix(t.req.data.method)

\* Task t answers a generic request: no internal flag and no signer kind.
Generic(t) == t.pc # "threw" /\ ~t.req.data.internal /\ KindOf(t) = "undefined"

\* No override handles the method of task t: none is configured, the static
\* ones have no entry for it, or its entry has returned Defer.
NoOverrideFor(t) ==
  \/ opts.overrides = "none"
  \/ opts.overrides = "static" /\ Requested(t) \notin OverrideKeys
  \/ t.handler.type = "call"

\* The target (or the signer) has the method of task t and it is a function.
HasFunction(t) == Requested(t) = <<"getAccounts">> /\ opts.method = "function"

\* C12: a generic request for a method M (the name it is looked up under)
\* that no override handles and that the target lacks, or has as something
\* that is no function, is answered with the error "No method 'M' on
\* target." and nothing of the target is called.
C12_NoMethodOnTarget ==
  \A i \in DOMAIN tasks :
    LET t == tasks[i]
    IN (Generic(t) /\ NoOverrideFor(t) /\ ~HasFunction(t))
       => /\ t.pc = "done"
          /\ t.msg = [type |-> "error", response |-> ABSENT,
                      error |-> <<"No method '">> \o Requested(t) \o <<"' on target.">>]
          /\ \A n \in DOMAIN t.inv : t.inv[n].fn # "target"
          /\ \A k \in Responses(i) :
               sent[k].type = "error" /\ sent[k].error = t.msg.error

\* The target has getAccounts, but not as a function: the generic request
\* for it has been answered with No method 'getAccounts' on target.
C12_Witness ==
  \E i \in DOMAIN tasks :
    /\ Generic(tasks[i]) /\ opts.overrides = "none" /\ opts.method = "nonFunction"
    /\ tasks[i].req.data.method = <<"getAccounts">> /\ tasks[i].inv = <<>>
    /\ \E k \in Responses(i) :
         sent[k].error = <<"No method '", "getAccounts", "' on target.">>

\* C13: a signer request of kind K with chain id C for a method M (the
\* name it is looked up under) that no override handles and that the signer
\* obtained from the provider lacks, or has as something that is no
\* function, is answered with the error "No K signer method 'M' for chain
\* ID 'C'." and no method of the signer is called.
C13_NoSignerMethod ==
  \A i \in DOMAIN tasks :
    LET t == tasks[i]
    IN (SignerScoped(t) /\ NoOverrideFor(t) /\ t.signer /\ ~HasFunction(t))
       => /\ t.pc = "done"
          /\ t.msg = [type |-> "error", response |-> ABSENT,
                      error |-> <<"No ", KindOf(t), " signer method '">> \o Requested(t)
                                  \o <<"' for chain ID '">> \o t.req.data.chainId
                                  \o <<"'.">>]
          /\ \A n \in DOMAIN t.inv : t.inv[n].fn # "signer"
          /\ \A k \in Responses(i) :
               sent[k].type = "error" /\ sent[k].error = t.msg.error

\* The amino signer of cosmoshub-4 has no getAccounts: the request for
\* 'signer:getAccounts' has been answered with the error that names amino,
\* getAccounts and cosmoshub-4.
C13_Witness ==
  \E i \in DOMAIN tasks :
    /\ SignerScoped(tasks[i]) /\ tasks[i].signer /\ opts.method = "absent"
    /\ tasks[i].req.data.method = <<LegacyPrefix, "getAccounts">>
    /\ \E k \in Responses(i) :
         sent[k].error = <<"No ", "amino", " signer method '", "getAccounts",
                           "' for chain ID '", "cosmoshub-4", "'.">>

\* The request of task t carries a signer kind and no chain id, or an empty
\* one.
KindWithoutChainId(t) ==
  /\ t.pc # "threw"
  /\ KindOf(t) # "undefined"
  /\ t.req.data.chainId = UNDEF \/ t.req.data.chainId = <<>>

\* The outcome of task t is the error of a missing chain id, nothing was
\* called for it, and that error is what was posted.
MissingChainId(i) ==
  /\ tasks[i].pc = "done"
  /\ tasks[i].msg = [type |-> "error", response |-> ABSENT,
                     error |-> <<"Missing chainId in signer message request">>]
  /\ tasks[i].inv = <<>>
  /\ \A k \in Responses(i) :
       sent[k].type = "error"
       /\ sent[k].error = <<"Missing chainId in signer message request">>

\* C14 as stated: every request with a signer kind (signerType or signType)
\* and no chain id, or an empty one, ends in the error 'Missing chainId in
\* signer message request', never in success.
C14_KindNeedsChainId ==
  \A i \in DOMAIN tasks : KindWithoutChainId(tasks[i]) => MissingChainId(i)

\* C14: every request without the internal flag that has a signer kind
\* (signerType or signType) and no chain id, or an empty one, ends in the
\* error 'Missing chainId in signer message request', never in success, and
\* nothing is called for it.  (With the internal flag the signer kind is
\* not read: the request is handled as an internal one.)
C14_SignerNeedsChainId ==
  \A i \in DOMAIN tasks :
    (KindWithoutChainId(tasks[i]) /\ ~tasks[i].req.data.internal) => MissingChainId(i)

\* A request with the deprecated signType 'direct' and an empty chain id has
\* been answered with the error.
C14_Witness ==
  \E i \in DOMAIN tasks :
    /\ tasks[i].req.data.signerType = "undefined" /\ tasks[i].req.data.signType = "direct"
    /\ tasks[i].req.data.chainId = <<>> /\ ~tasks[i].req.data.internal
    /\ \E k \in Responses(i) :
         sent[k].error = <<"Missing chainId in signer message request">>

\* C15: of two calls pending together, with their distinct ids, a step that
\* settles one (a response, in whichever order the responses come, or its
\* timer) leaves the other as it was: pending, its listener registered, its
\* timer running; and the response that settles a call bears that call's
\* id.
C15_CallsAreIndependent ==
  [][ \A i, j \in DOMAIN calls :
        (i # j /\ calls[i].state = "pending" /\ calls[j].state = "pending")
        => /\ calls[i].id # calls[j].id
           /\ calls'[i].state # "pending"
              => /\ calls'[j] = calls[j]
                 /\ calls'[j].listener
                 /\ lastEvent' # NoEvent => Answers(lastEvent', calls[i])
    ]_vars

\* The second call was answered first and the first call has just been
\* answered, each with the value of its own response.
C15_Witness ==
  /\ Len(calls) = 2
  /\ calls[1].state = "resolved" /\ calls[2].state = "resolved"
  /\ calls[1].result = "v1" /\ calls[2].result = "undefined"
  /\ Answers(lastEvent, calls[1]) /\ lastEvent.data.response = "v1"

\* The calls that are pending before a step and settled after it.
SettledByStep == { i \in DOMAIN calls : calls[i].state = "pending" /\ calls'[i].state # "pending" }

\* The request of call c was posted to the parent.
Posted(c) == \E k \in DOMAIN outbox : outbox[k].id = c.id

\* C16: the promise of a call is settled at most once, and a settled call
\* has exactly one cause: a success response (resolved), an error response
\* (rejected with an Error), its timer (rejected with
\* CosmiframeTimeoutError, the timer fired) or a post that threw (rejected
\* with what it threw, nothing posted).  Once a call is settled no step
\* changes it: a later message with its id is ignored.  One step, hence one
\* response message, settles at most one pending call.
C16_SettledOnce ==
  [][ /\ Cardinality(SettledByStep) <= 1
      /\ \A i \in DOMAIN calls :
           /\ calls[i].settles <= 1
           /\ calls[i].settles = 1 <=> calls[i].state # "pending"
           /\ calls[i].state = "resolved"
              => calls[i].error = NoError /\ calls[i].timer # "fired" /\ Posted(calls[i])
           /\ calls[i].state = "rejected"
              => /\ calls[i].result = ABSENT
                 /\ calls[i].error.name
                      \in {"Error", "CosmiframeTimeoutError", "DataCloneError"}
                 /\ calls[i].error.name = "CosmiframeTimeoutError" <=> calls[i].timer = "fired"
                 /\ calls[i].error.name = "DataCloneError" <=> ~Posted(calls[i])
           /\ calls[i].state # "pending" => calls'[i] = calls[i]
    ]_vars

\* A call was resolved, and an error response with its id, from the parent
\* at an allowed origin, has just been delivered and ignored.
C16_Witness ==
  \E i \in DOMAIN calls :
    /\ calls[i].state = "resolved" /\ calls[i].settles = 1
    /\ Answers(lastEvent, calls[i]) /\ lastEvent.data.type = "error"
    /\ Trusted(lastEvent)

\* C17: when the post of the request throws, the call is rejected at once
\* with what the post threw, its listener is removed and no timer runs;
\* from then on no step, and so no message with its id, changes the call.
C17_SendFailureRejects ==
  [][ /\ \A i \in DOMAIN calls' :
           ~(\E k \in DOMAIN outbox' : outbox'[k].id = calls'[i].id)
           => /\ calls'[i].state = "rejected" /\ calls'[i].error = DataCloneError
              /\ ~calls'[i].listener /\ calls'[i].timer = "none"
              /\ calls'[i].settles = 1
      /\ \A i \in DOMAIN calls : ~Posted(calls[i]) => calls'[i] = calls[i]
    ]_vars

\* The post of a call threw, and a success response with the id of that
\* call has just come from the parent at an allowed origin.
C17_Witness ==
  \E i \in DOMAIN calls :
    /\ ~Posted(calls[i]) /\ calls[i].state = "rejected"
    /\ calls[i].error = DataCloneError
    /\ Answers(lastEvent, calls[i]) /\ lastEvent.data.type = "success"
    /\ Trusted(lastEvent)

\* C18: a call has its message listener registered exactly while it is
\* pending, and a running timer only while it is pending (a pending call
\* has one when it was made with a timeout): a call settled by a success
\* response, an error response, its timer or a post that threw has neither.
C18_NoListenerOrTimerLeft ==
  \A i \in DOMAIN calls :
    /\ calls[i].listener <=> calls[i].state = "pending"
    /\ calls[i].timer = "set" <=> (calls[i].state = "pending" /\ calls[i].timeout > 0)
    /\ calls[i].timeout = 0 => calls[i].timer = "none"

\* Of two calls made with a timeout one was answered and its timer cleared,
\* the other timed out.
C18_Witness ==
  \E i, j \in DOMAIN calls :
    /\ calls[i].state = "resolved" /\ calls[i].timer = "cleared" /\ ~calls[i].listener
    /\ calls[j].state = "rejected" /\ calls[j].timer = "fired" /\ ~calls[j].listener

EndsInDaodaoZone == {"https://daodao.zone", "https://dao.daodao.zone"}

\* The list has the allow-all entry, or the origin as one of its strings,
\* or a pattern that the origin matches.
ShouldAllow(list, o) ==
  \/ \E n \in DOMAIN list : list[n].kind = "string" /\ list[n].v = "*"
  \/ \E n \in DOMAIN list : list[n].kind = "string" /\ list[n].v = o
  \/ \E n \in DOMAIN list :
       list[n].kind = "regexp" /\ list[n].v = "daodao\\.zone$" /\ o \in EndsInDaodaoZone

\* C20: isOriginAllowed(list, origin) is true exactly when the list has the
\* allow-all entry, or the origin equals one of its strings, or the origin
\* matches one of its patterns: so it is for the list of the listener and
\* every origin, and an event from the iframe's window with all its fields
\* starts a run of the listener exactly when its origin is such.
C20_OriginGuard ==
  [][ /\ \A o \in Origins :
           IsOriginAllowed(ListenOrigins, o) <=> ShouldAllow(ListenOrigins, o)
      /\ ( /\ received' # NoEvent /\ received'.source = iframeWindow
           /\ received'.data.shape = "ok" )
         => (Len(tasks') = Len(tasks) + 1 <=> ShouldAllow(ListenOrigins, received'.origin))
    ]_vars

\* With origins [OriginA, /daodao\.zone$/] a request at OriginB, which only
\* the pattern matches, has started a run of the listener.
C20_Witness ==
  /\ opts.origins = << [kind |-> "string", v |-> OriginA],
                       [kind |-> "regexp", v |-> "daodao\\.zone$"] >>
  /\ received # NoEvent /\ received.origin = OriginB
  /\ Len(tasks) = 1 /\ tasks[1].req = received

\* C24: when listen is given no origins (undefined, or an empty list: both
\* have no length), the event of every origin passes the origin check, so
\* every event from the iframe's window with all its fields starts a run;
\* when the list is not empty, a run is started, and a response posted, only
\* for events whose origin the list allows.
C24_DefaultOriginsAllowAll ==
  [][ /\ opts.origins = <<>>
         => /\ \A o \in Origins : IsOriginAllowed(ListenOrigins, o)
            /\ ( /\ received' # NoEvent /\ received'.source = iframeWindow
                 /\ received'.data.shape = "ok" )
               => Len(tasks') = Len(tasks) + 1
      /\ opts.origins # <<>>
         => /\ \A i \in DOMAIN tasks' : ShouldAllow(opts.origins, tasks'[i].req.origin)
            /\ \A k \in DOMAIN sent' : ShouldAllow(opts.origins, sent'[k].targetOrigin)
    ]_vars

\* listen was given no origins, and a request from an origin that no list of
\* the model allows has been answered.
C24_Witness ==
  /\ opts.origins = <<>>
  /\ \E k \in DOMAIN sent :
       /\ sent[k].targetOrigin = OriginEvil
       /\ tasks[sent[k].task].req.origin = OriginEvil

\* C25 as documented (utils.ts:307-312): when the override of the requested
\* method returns nothing, the request ends in an error with the message
\* "Handled by parent."
C25_HandledByParent ==
  \A i \in DOMAIN tasks :
    tasks[i].handler.type = "undefined"
    => /\ tasks[i].msg.type = "error"
       /\ tasks[i].msg.error = <<"Handled by parent.">>

\* The string `${e}` of a thrown value that is no Error.
Rendering(e) == IF e.kind = "string" THEN e.message ELSE <<"[object Object]">>

\* C27: when the override factory, the override, the signer provider or the
\* method called for an accepted request throws, or rejects, the run of the
\* listener ends with the error outcome whose message is the exception's
\* message when it is an Error and its string rendering when it is not;
\* the exception does not leave the listener, and the outcome is posted as
\* any other (once, if the iframe's window is still there).
C27_ExceptionsBecomeErrors ==
  \A i \in DOMAIN tasks :
    LET t == tasks[i]
        e == t.thrown
    IN e # NoThrow
       => /\ t.pc = "done"
          /\ t.msg = [type |-> "error", response |-> ABSENT,
                      error |-> IF e.kind = "Error" THEN e.message ELSE Rendering(e)]
          /\ \A k \in Responses(i) :
               sent[k].type = "error" /\ sent[k].error = t.msg.error
          /\ iframeWindow = "iframe" => Cardinality(Responses(i)) = 1

\* The provider of the amino signer rejected with an object that is no
\* Error, and the request was answered with the error '[object Object]'.
C27_Witness ==
  \E i \in DOMAIN tasks :
    /\ tasks[i].thrown = [kind |-> "object", message |-> UNDEF]
    /\ Len(tasks[i].inv) > 0
    /\ tasks[i].inv[Len(tasks[i].inv)].fn = "getOfflineSignerAmino"
    /\ \E k \in Responses(i) : sent[k].error = <<"[object Object]">>

\* The tasks whose run of the listener has not ended.
InFlight == { i \in DOMAIN tasks : tasks[i].pc \notin {"done", "threw"} }

\* C28 as stated: the listener handles one accepted request at a time, so
\* that no two requests are in flight together and the responses are
\* posted in the order in which their requests were accepted.
C28_OneAtATime ==
  /\ Cardinality(InFlight) <= 1
  /\ \A k, l \in DOMAIN sent : k < l => sent[k].task < sent[l].task

\* C28: a step of the listener (from a message event, or from a settled
\* await, to the next await or to the end) belongs to one request: it
\* accepts or advances at most one, and posts at most one response, that of
\* the request whose handling it ends.  Requests may be in flight together,
\* and responses are posted in the order in which the handlings end.
C28_OneRequestPerStep ==
  [][ /\ Len(tasks') \in {Len(tasks), Len(tasks) + 1}
      /\ Cardinality({ i \in DOMAIN tasks : tasks'[i] # tasks[i] })
           + (Len(tasks') - Len(tasks)) <= 1
      /\ sent' # sent
         => /\ Len(sent') = Len(sent) + 1
            /\ SubSeq(sent', 1, Len(sent)) = sent
            /\ \E i \in DOMAIN tasks' :
                 /\ sent'[Len(sent')].task = i
                 /\ sent'[Len(sent')].id = tasks'[i].id
                 /\ tasks'[i].pc = "done"
                 /\ i \in DOMAIN tasks => tasks[i].pc \notin {"done", "threw"}
    ]_vars

\* Two requests were in flight together and the second one accepted was
\* answered first.
C28_Witness ==
  /\ Len(sent) = 2
  /\ sent[1].task = 2 /\ sent[2].task = 1
  /\ tasks[1].id # tasks[2].id

\* The requests that carry the internal flag.
IsInternal(t) == t.req.data.internal = TRUE

\* Task t called nothing but a function found on the internal table.
OnlyInternalCalls(t) ==
  /\ \A k \in DOMAIN t.inv : t.inv[k].fn = "internal"
  /\ t.handler = NoHandler
  /\ ~t.signer
  /\ t.resolved = ABSENT

\* C29: an internal request is answered from the table {isCosmiframe,
\* getMetadata} and from nothing else, under the method name as it came
\* (the legacy prefix not removed); no override, provider or target method
\* is called for it.
C29_InternalOnlyFromTable ==
  \A i \in DOMAIN tasks :
    (IsInternal(tasks[i]) /\ tasks[i].pc = "done")
    => /\ OnlyInternalCalls(tasks[i])
       /\ tasks[i].msg.type = "success"
          <=> tasks[i].req.data.method \in {<<"isCosmiframe">>, <<"getMetadata">>}
       /\ \A k \in DOMAIN tasks[i].inv : tasks[i].inv[k].name = tasks[i].req.data.method

\* The functions of the listener's options that task t called.
Called(t) == { t.inv[k].fn : k \in DOMAIN t.inv }

\* What is called for a signer of kind K, and what for the target.
ForSigner(K) ==
  { "signerOverrides", "signerOverride", "signer",
    IF K = "direct" THEN "getOfflineSignerDirect" ELSE "getOfflineSignerAmino" }
ForTarget == { "nonSignerOverrides", "nonSignerOverride", "target" }

\* C30: for a request without the internal flag, a signerType that is
\* given is the signer kind, whatever signType says; signType is the signer
\* kind when signerType is absent, and the request is then a signer request
\* of that kind (it needs a chain id, and only the overrides for signers,
\* the provider of that kind and the signer's method are called); with
\* neither, the request is for the target.
C30_SignTypeIsTheFallback ==
  \A i \in DOMAIN tasks :
    LET t == tasks[i]
        canonical == t.req.data.signerType
        alias == t.req.data.signType
        hasChainId == t.req.data.chainId # UNDEF /\ t.req.data.chainId # <<>>
        signerOf(K) ==
          /\ t.signerType = K
          /\ Called(t) \subseteq ForSigner(K)
          /\ (hasChainId /\ opts.overrides = "none")
             => t.inv[1].fn = IF K = "direct" THEN "getOfflineSignerDirect"
                                              ELSE "getOfflineSignerAmino"
          /\ (~hasChainId /\ t.pc = "done")
             => t.msg = ErrorMsg(<<"Missing chainId in signer message request">>)
    IN (t.pc # "threw" /\ ~t.req.data.internal)
       => /\ canonical # "undefined" => signerOf(canonical)
          /\ (canonical = "undefined" /\ alias # "undefined") => signerOf(alias)
          /\ (canonical = "undefined" /\ alias = "undefined")
             => Called(t) \subseteq ForTarget

\* A request with signerType 'amino' and signType 'direct' has been
\* answered with what the amino signer's method resolved to.
C30_Witness ==
  \E i \in DOMAIN tasks :
    /\ tasks[i].req.data.signerType = "amino" /\ tasks[i].req.data.signType = "direct"
    /\ ~tasks[i].req.data.internal /\ opts.overrides = "none"
    /\ Len(tasks[i].inv) = 2
    /\ tasks[i].inv[1].fn = "getOfflineSignerAmino"
    /\ tasks[i].inv[2].fn = "signer"
    /\ tasks[i].resolved = "v1"
    /\ \E k \in Responses(i) : sent[k].type = "success" /\ sent[k].response = "v1"

\* The request messages posted for call c.
RequestsOf(c) == { k \in DOMAIN outbox : outbox[k].id = c.id }

\* C26: no request is posted twice.  The step that makes a call posts its
\* one request message (none when the post throws), and no later step, be
\* it an error response, a success response, the timer or any other event,
\* posts a request for a call that exists.
C26_NoRetry ==
  [][ /\ \A i \in DOMAIN calls :
           { k \in DOMAIN outbox' : outbox'[k].id = calls[i].id } = RequestsOf(calls[i])
      /\ Len(outbox') >= Len(outbox)
      /\ SubSeq(outbox', 1, Len(outbox)) = outbox
      /\ \A i \in DOMAIN calls' \ DOMAIN calls :
           LET n == Cardinality({ k \in DOMAIN outbox' : outbox'[k].id = calls'[i].id })
           IN /\ n = IF calls'[i].error = DataCloneError THEN 0 ELSE 1
              /\ Len(outbox') = Len(outbox) + n
      /\ Len(calls') = Len(calls) => outbox' = outbox
    ]_vars

\* One call was rejected by an error response and another by its timer:
\* each has its one request, and no other request was posted.
C26_Witness ==
  /\ \E i \in DOMAIN calls :
       /\ calls[i].state = "rejected" /\ calls[i].error = ResponseError(<<"e1">>)
       /\ Cardinality(RequestsOf(calls[i])) = 1
  /\ \E i \in DOMAIN calls :
       /\ calls[i].state = "rejected" /\ calls[i].error = CosmiframeTimeoutError
       /\ Cardinality(RequestsOf(calls[i])) = 1
  /\ Len(outbox) = 2

\* The uses of isReady among what the app asked.
ReadyCalls == { n \in DOMAIN returned : returned[n].api = "isReady" }

\* C21: isReady gives a truthy value only when the app is in an iframe and
\* its probe (internal, isCosmiframe, no parameters, timeout 500) was
\* resolved by a response from an allowed origin, and the value is then
\* that origin; outside an iframe it gives false and makes no call; when the
\* probe times out it gives false; when the probe fails in another way it
\* rejects with that error.
C21_IsReady ==
  \A n \in ReadyCalls :
    LET r == returned[n]
        o == Outcome(r)
    IN /\ ~inIframe => (r.call = 0 /\ o = Fulfilled("false"))
       /\ inIframe
          => /\ r.call \in DOMAIN calls
             /\ calls[r.call].message
                  = [method |-> <<"isCosmiframe">>, params |-> <<>>, internal |-> TRUE]
             /\ calls[r.call].timeout = 500
             /\ calls[r.call].state = "pending" => o.state = "pending"
             /\ (calls[r.call].state = "rejected"
                 /\ calls[r.call].error.name = "CosmiframeTimeoutError")
                => o = Fulfilled("false")
             /\ (calls[r.call].state = "rejected"
                 /\ calls[r.call].error.name # "CosmiframeTimeoutError")
                => (o.state = "rejected" /\ o.error = calls[r.call].error)
       /\ (o.state = "fulfilled" /\ o.value \notin Falsy)
          => /\ inIframe
             /\ calls[r.call].state = "resolved"
             /\ IsOriginAllowed(allowedOrigins, calls[r.call].origin)
             /\ o.value = calls[r.call].origin

\* One isReady has given the origin of the parent that answered its probe,
\* and another has given false because its probe timed out.
C21_Witness ==
  /\ \E n \in ReadyCalls : Outcome(returned[n]) = Fulfilled(OriginA)
  /\ \E n \in ReadyCalls :
       /\ returned[n].call # 0
       /\ calls[returned[n].call].error = CosmiframeTimeoutError
       /\ Outcome(returned[n]) = Fulfilled("false")

\* The calls of p under a name that the object behind p does not define.
NotDefinedOnP == { n \in DOMAIN returned :
                     returned[n].api = "p" /\ Head(returned[n].name) # "getEnigmaUtils" }

\* C22: p[N](...A), for every N that the object behind p does not define,
\* makes exactly one call of callParentMethod, with method N and params A,
\* and gives what that call comes to: its result, or its rejection.
C22_EveryNameIsForwarded ==
  \A n \in NotDefinedOnP :
    LET r == returned[n]
    IN /\ r.call \in DOMAIN calls
       /\ calls[r.call].message.method = r.name
       /\ calls[r.call].message.params = r.params
       /\ \A m \in DOMAIN returned : returned[m].call = r.call => m = n
       /\ Outcome(r) = ThenResult(calls[r.call])

\* The uses of getEnigmaUtils(chainId) among what the app asked.
EnigmaCalls == { n \in DOMAIN returned :
                  Len(returned[n].name) = 2 /\ Head(returned[n].name) = "getEnigmaUtils" }

\* C23 as stated: every function of getEnigmaUtils(chainId) calls its method
\* of the parent with chainId and then its own arguments.
C23_OwnArgumentsFollow ==
  \A n \in EnigmaCalls :
    /\ returned[n].call \in DOMAIN calls
    /\ calls[returned[n].call].message.params
         = <<returned[n].chainId>> \o returned[n].params

\* C23: on p and on the Keplr client, getEnigmaUtils(chainId) gives
\* getPubkey, decrypt, encrypt and getTxEncryptionKey, which call the
\* parent's getEnigmaPubKey, enigmaDecrypt, enigmaEncrypt and
\* getEnigmaTxEncryptionKey: decrypt, encrypt and getTxEncryptionKey with
\* chainId and then their own arguments, getPubkey with chainId alone,
\* whatever it is given.
C23_EnigmaUtilsForward ==
  \A n \in EnigmaCalls :
    LET r == returned[n]
        fn == r.name[2]
    IN /\ r.api \in {"p", "keplr"}
       /\ r.call \in DOMAIN calls
       /\ calls[r.call].message.method
            = ( CASE fn = "getPubkey" -> <<"getEnigmaPubKey">>
                  [] fn = "decrypt" -> <<"enigmaDecrypt">>
                  [] fn = "encrypt" -> <<"enigmaEncrypt">>
                  [] fn = "getTxEncryptionKey" -> <<"getEnigmaTxEncryptionKey">> )
       /\ calls[r.call].message.params
            = IF fn = "getPubkey" THEN <<r.chainId>> ELSE <<r.chainId>> \o r.params
       /\ calls[r.call].timeout = 0
       /\ Outcome(r) = ThenResult(calls[r.call])

\* decrypt('a1') of the Keplr client's getEnigmaUtils('secret-4') and
\* encrypt('a1') of p's have called enigmaDecrypt and enigmaEncrypt with
\* ('secret-4', 'a1'), and the first has its result.
C23_Witness ==
  /\ Len(returned) = 2
  /\ returned[1].api = "keplr" /\ returned[1].name = <<"getEnigmaUtils", "decrypt">>
  /\ returned[2].api = "p" /\ returned[2].name = <<"getEnigmaUtils", "encrypt">>
  /\ calls[returned[1].call].message
       = [method |-> <<"enigmaDecrypt">>, params |-> <<"secret-4", "a1">>, internal |-> FALSE]
  /\ calls[returned[2].call].message
       = [method |-> <<"enigmaEncrypt">>, params |-> <<"secret-4", "a1">>, internal |-> FALSE]
  /\ Outcome(returned[1]) = Fulfilled("true")

\* What resolution calls once the overrides are out of the way.
ResolutionSteps == {"getOfflineSignerDirect", "getOfflineSignerAmino", "signer", "target"}

\* C31: when the override of the requested method returns Value or Fail,
\* that is the outcome: the listener's run ends in the step in which the
\* override settles, nothing is called after the override, and neither a
\* signer provider nor a method of the signer or of the target is called
\* for the request at all.
C31_OverrideShortCircuits ==
  \A i \in DOMAIN tasks :
    LET t == tasks[i]
    IN t.handler.type \in {"success", "error"}
       => /\ t.pc = "done"
          /\ Called(t) \cap ResolutionSteps = {}
          /\ t.inv[Len(t.inv)].fn \in {"signerOverride", "nonSignerOverride"}
          /\ ~t.signer /\ t.resolved = ABSENT
          /\ t.msg.type = t.handler.type

\* The override of a signer request's method has returned a Value, and the
\* request was answered with it after nothing but the override was called.
C31_Witness ==
  \E i \in DOMAIN tasks :
    /\ tasks[i].handler = [type |-> "success", error |-> UNDEF, value |-> "v1"]
    /\ tasks[i].req.data.signerType = "amino"
    /\ opts.overrides = "static"
    /\ tasks[i].inv = << [fn |-> "signerOverride", name |-> <<"getAccounts">>,
                          args |-> tasks[i].req.data.params] >>
    /\ \E k \in Responses(i) : sent[k].type = "success" /\ sent[k].response = "v1"

\* The signer kind that the request of task t carries, under either name.
CarriesKind(t) ==
  t.req.data.signerType # "undefined" \/ t.req.data.signType # "undefined"

\* C33: the internal flag is looked at first, the signer kind second.  A
\* request with the internal flag is answered from the internal table alone,
\* with its value or with 'Unknown internal method', whatever signer kind
\* and chain id it carries (a missing chain id is no error for it); a
\* request without the flag that carries a signer kind never reaches the
\* non-signer overrides or the target, whether it has a chain id or not;
\* a request with neither reaches nothing but those.
C33_InternalThenSignerThenGeneric ==
  \A i \in DOMAIN tasks :
    LET t == tasks[i]
    IN t.pc # "threw"
       => /\ IsInternal(t)
             => /\ Called(t) \subseteq {"internal"}
                /\ t.pc = "done"
                /\ \/ /\ t.msg.type = "success" /\ Called(t) = {"internal"}
                   \/ /\ t.msg.type = "error" /\ Called(t) = {}
                      /\ SubSeq(t.msg.error, 1, 1) = <<"Unknown internal method: ">>
          /\ (~IsInternal(t) /\ CarriesKind(t))
             => Called(t) \cap (ForTarget \cup {"internal"}) = {}
          /\ (~IsInternal(t) /\ ~CarriesKind(t))
             => Called(t) \subseteq ForTarget

\* An internal isCosmiframe with signer kind 'amino' and no chain id was
\* answered true by the internal table.
C33_Witness ==
  \E i \in DOMAIN tasks :
    /\ IsInternal(tasks[i])
    /\ tasks[i].req.data.method = <<"isCosmiframe">>
    /\ tasks[i].req.data.signerType = "amino"
    /\ tasks[i].req.data.chainId = UNDEF
    /\ Called(tasks[i]) = {"internal"}
    /\ \E k \in Responses(i) : sent[k].type = "success" /\ sent[k].response = "true"

\* C34: a request without the internal flag that carries a signer kind and
\* no chain id (none, or the empty string) is answered 'Missing chainId in
\* signer message request' in the step that receives it, and nothing is
\* called for it: no factory of overrides, no override, no provider.
C34_NoChainIdNothingCalled ==
  \A i \in DOMAIN tasks :
    LET t == tasks[i]
    IN ( /\ t.pc # "threw" /\ ~IsInternal(t) /\ CarriesKind(t)
         /\ t.req.data.chainId \in {UNDEF, <<>>} )
       => /\ t.pc = "done"
          /\ t.inv = <<>>
          /\ t.handler = NoHandler /\ ~t.signer /\ t.resolved = ABSENT
          /\ t.msg = ErrorMsg(<<"Missing chainId in signer message request">>)
          /\ \A k \in Responses(i) : sent[k].type = "error" /\ sent[k].error = t.msg.error

\* With a factory of overrides configured, a signer request without chain
\* id was answered with the error and the factory was not called.
C34_Witness ==
  \E i \in DOMAIN tasks :
    /\ opts.overrides = "factory"
    /\ ~IsInternal(tasks[i])
    /\ tasks[i].req.data.signerType = "amino"
    /\ tasks[i].req.data.chainId = UNDEF
    /\ tasks[i].inv = <<>>
    /\ \E k \in Responses(i) :
         sent[k].error = <<"Missing chainId in signer message request">>

\* The event came from the iframe's window, from an origin that the
\* listener's list allows (any origin when the list is empty), with id,
\* method and params.
Passed(ev) ==
  /\ ev.source = "iframe"
  /\ opts.origins = <<>> \/ ShouldAllow(opts.origins, ev.origin)
  /\ ev.data.shape = "ok"

\* C35: every response posted carries the id of a request that passed the
\* source, origin and shape checks, goes to the iframe's window, and is
\* posted in the step that receives that request or in a later one; what
\* has been posted stays as it is.
C35_NoSpuriousResponse ==
  [][ /\ \A k \in DOMAIN sent' :
           LET i == sent'[k].task
           IN /\ i \in DOMAIN tasks'
              /\ sent'[k].id = tasks'[i].req.data.id
              /\ Passed(tasks'[i].req)
              /\ sent'[k].to = "iframe"
      /\ Len(sent') >= Len(sent)
      /\ SubSeq(sent', 1, Len(sent)) = sent
      /\ \A k \in DOMAIN sent' \ DOMAIN sent :
           LET i == sent'[k].task
           IN i \in DOMAIN tasks \/ (i = Len(tasks) + 1 /\ received' = tasks'[i].req)
    ]_vars

\* Two requests with different ids were accepted; the second has been
\* answered with its id while the first still waits.
C35_Witness ==
  /\ Len(tasks) = 2 /\ Len(sent) = 1
  /\ tasks[1].id # tasks[2].id
  /\ tasks[1].pc \notin {"done", "threw"}
  /\ sent[1].task = 2 /\ sent[1].id = tasks[2].id

\* The uses of the either signer's getAccounts among what the app asked.
EitherCalls == { n \in DOMAIN returned : returned[n].api = "either" }

\* What holds of the either signer's getAccounts in every state.
EitherFallsBack ==
  \A n \in EitherCalls :
    LET r == returned[n]
    IN /\ calls[r.call].message
            = [ method |-> <<"getAccounts">>, params |-> <<>>, internal |-> FALSE,
                chainId |-> r.chainId, signerType |-> "amino" ]
       /\ calls[r.call].state = "pending" => (r.fallback = 0 /\ Outcome(r).state = "pending")
       /\ calls[r.call].state = "resolved"
          => (r.fallback = 0 /\ Outcome(r) = Fulfilled(calls[r.call].result))
       /\ r.fallback # 0
          => /\ r.fallback > r.call
             /\ calls[r.call].state = "rejected"
             /\ calls[r.fallback].message
                  = [ method |-> <<"getAccounts">>, params |-> <<>>, internal |-> FALSE,
                      chainId |-> r.chainId, signerType |-> "direct" ]
             /\ Outcome(r) = ThenResult(calls[r.fallback])

\* C32: getAccounts of the either signer first makes one call, getAccounts
\* with signer kind 'amino'; it makes the call with kind 'direct' only in a
\* step that finds the amino call rejected, and never when the amino call is
\* pending or resolved; it gives the amino result when the amino call
\* resolves, and otherwise what the direct call comes to, value or rejection.
C32_AminoThenDirect ==
  [][ /\ EitherFallsBack'
      /\ \A n \in DOMAIN returned' :
           returned'[n].api = "either"
           => /\ n \notin DOMAIN returned
                 => (returned'[n].fallback = 0 /\ Len(calls') = Len(calls) + 1)
              /\ (n \in DOMAIN returned /\ returned[n].fallback # returned'[n].fallback)
                 => /\ returned[n].fallback = 0
                    /\ calls[returned[n].call].state = "rejected"
                    /\ returned'[n].fallback = Len(calls) + 1
    ]_vars

\* The amino call of an either signer was rejected by an error response,
\* its direct call was answered, and getAccounts has given that answer.
C32_Witness ==
  \E n \in EitherCalls :
    /\ calls[returned[n].call].error = ResponseError(<<"e1">>)
    /\ returned[n].fallback # 0
    /\ calls[returned[n].fallback].state = "resolved"
    /\ Outcome(returned[n]) = Fulfilled("true")

====
